---- MODULE Spec2Model ----
(***************************************************************************)
(* Model of the kd-tree Pareto fronts of do-util over                      *)
(* CartesianParetoElement<NB_DIM>: the coordinate front                    *)
(* (src/src/pareto_pq/kd_tree.rs) and the guided front                     *)
(* (src/src/priority_queue/kd_tree.rs, operators prefixed pq_ where the    *)
(* two files use the same name).                                           *)
(*                                                                         *)
(* A Link (Option<Box<Node>>) is a sequence of length 0 (None) or 1        *)
(* (Some(node)); a node is a record [e, l, r, b].  A `&mut Link` returned  *)
(* by a search is modelled by the path ("l"/"r" steps) that leads to it.   *)
(* Elements are tuples; coordinate k of the source is component k+1.       *)
(***************************************************************************)
EXTENDS Integers, Sequences, FiniteSets, TLC

\* number of dimensions of the front (const generic NB_DIM)
NB_DIM == 2

\* largest coordinate value of the elements offered to the front
MaxCoord == 3

\* largest number of elements of the fronts that are built and then emptied
MaxBuild == 4

Coords == 0..MaxCoord
DimSet == 0..(NB_DIM - 1)

\* CartesianParetoElement::new over the bounded coordinates
Elts == [1..NB_DIM -> Coords]

None == <<>>
Some(x) == <<x>>

Min2(a, b) == IF a <= b THEN a ELSE b
Max2(a, b) == IF a >= b THEN a ELSE b

\* ParetoElement::kth
kth(e, k) == e[k + 1]

\* dominance that is not reflexive: an element does not dominate its equal
dominates_strict(a, b) == a # b /\ ~ \E i \in 1..NB_DIM : a[i] > b[i]

\* dominance decided by the first coordinate alone
dominates_first(a, b) == a[1] <= b[1]

\* CartesianParetoElement::dominates
dominates(a, b) == ~ \E i \in 1..NB_DIM : a[i] > b[i]

\* compute_bounds that looks at the element alone and not at the children
compute_bounds_elt_only(e, l, r) == [i \in 1..NB_DIM |-> <<e[i], e[i]>>]

\* Node::compute_bounds
compute_bounds(e, l, r) ==
    LET res0 == [i \in 1..NB_DIM |-> <<e[i], e[i]>>]
        res1 == IF l = None THEN res0
                ELSE [i \in 1..NB_DIM |->
                        <<Min2(res0[i][1], l[1].b[i][1]), Max2(res0[i][2], l[1].b[i][2])>>]
        res2 == IF r = None THEN res1
                ELSE [i \in 1..NB_DIM |->
                        <<Min2(res1[i][1], r[1].b[i][1]), Max2(res1[i][2], r[1].b[i][2])>>]
    IN res2

\* Node::new
Node_new(e, l, r) == [e |-> e, l |-> l, r |-> r, b |-> compute_bounds(e, l, r)]

\* Node::update_bounds
update_bounds(node) == [node EXCEPT !.b = compute_bounds(node.e, node.l, node.r)]

\* Node::attach_left
attach_left(node, t) == [node EXCEPT !.l = t, !.b = compute_bounds(node.e, t, node.r)]

\* Node::attach_right
attach_right(node, t) == [node EXCEPT !.r = t, !.b = compute_bounds(node.e, node.l, t)]

RECURSIVE rec_insert_without_check_fixed_dim(_, _, _)
\* rec_insert_without_check that compares on the same dimension at every depth
rec_insert_without_check_fixed_dim(node, elt, dim) ==
    LET n1 == IF kth(elt, dim) < kth(node.e, dim)
              THEN IF node.l = None
                   THEN attach_left(node, Some(Node_new(elt, None, None)))
                   ELSE [node EXCEPT !.l =
                            Some(rec_insert_without_check_fixed_dim(node.l[1], elt, dim))]
              ELSE IF node.r = None
                   THEN attach_right(node, Some(Node_new(elt, None, None)))
                   ELSE [node EXCEPT !.r =
                            Some(rec_insert_without_check_fixed_dim(node.r[1], elt, dim))]
    IN update_bounds(n1)

RECURSIVE rec_insert_without_check(_, _, _)
\* KDTreeFront::rec_insert_without_check; yields the node after the mutation
rec_insert_without_check(node, elt, dim) ==
    LET n1 == IF kth(elt, dim) < kth(node.e, dim)
              THEN IF node.l = None
                   THEN attach_left(node, Some(Node_new(elt, None, None)))
                   ELSE [node EXCEPT !.l =
                            Some(rec_insert_without_check(node.l[1], elt, (dim + 1) % NB_DIM))]
              ELSE IF node.r = None
                   THEN attach_right(node, Some(Node_new(elt, None, None)))
                   ELSE [node EXCEPT !.r =
                            Some(rec_insert_without_check(node.r[1], elt, (dim + 1) % NB_DIM))]
    IN update_bounds(n1)

\* KDTreeFront::insert_without_check; yields the new root link
insert_without_check(rt, elt) ==
    IF rt = None THEN Some(Node_new(elt, None, None))
    ELSE Some(rec_insert_without_check(rt[1], elt, 0))

RECURSIVE rec_search_fixed_dim(_, _, _)
\* rec_search that keeps comparing on the same dimension at every depth
rec_search_fixed_dim(link, elt, dim) ==
    IF link = None THEN [path |-> <<>>, dim |-> None]
    ELSE IF link[1].e = elt THEN [path |-> <<>>, dim |-> Some(dim)]
    ELSE LET side == IF kth(elt, dim) < kth(link[1].e, dim) THEN "l" ELSE "r"
             next_link == IF side = "l" THEN link[1].l ELSE link[1].r
             s == rec_search_fixed_dim(next_link, elt, dim)
         IN [s EXCEPT !.path = <<side>> \o @]

RECURSIVE rec_search_no_dim(_, _, _)
\* rec_search that returns the link of the element without its dimension
rec_search_no_dim(link, elt, dim) ==
    IF link = None THEN [path |-> <<>>, dim |-> None]
    ELSE IF link[1].e = elt THEN [path |-> <<>>, dim |-> None]
    ELSE LET side == IF kth(elt, dim) < kth(link[1].e, dim) THEN "l" ELSE "r"
             next_link == IF side = "l" THEN link[1].l ELSE link[1].r
             s == rec_search_no_dim(next_link, elt, (dim + 1) % NB_DIM)
         IN [s EXCEPT !.path = <<side>> \o @]

RECURSIVE rec_search(_, _, _)
\* KDTreeFront::rec_search; the returned link is given by its path from `link`
rec_search(link, elt, dim) ==
    IF link = None THEN [path |-> <<>>, dim |-> None]
    ELSE IF link[1].e = elt THEN [path |-> <<>>, dim |-> Some(dim)]
    ELSE LET side == IF kth(elt, dim) < kth(link[1].e, dim) THEN "l" ELSE "r"
             next_link == IF side = "l" THEN link[1].l ELSE link[1].r
             s == rec_search(next_link, elt, (dim + 1) % NB_DIM)
         IN [s EXCEPT !.path = <<side>> \o @]

\* KDTreeFront::search
search(rt, elt) == rec_search(rt, elt, 0)

RECURSIVE mut_rec_search_minimum(_, _, _)
\* KDTreeFront::mut_rec_search_minimum
mut_rec_search_minimum(link, dim, target_dim) ==
    IF link = None THEN [path |-> <<>>, dim |-> None, val |-> None]
    ELSE LET node == link[1]
             v_e == kth(node.e, target_dim)
             has_l == node.l # None
             has_r == node.r # None
             v_l == node.l[1].b[target_dim + 1][1]
             v_r == node.r[1].b[target_dim + 1][1]
             here == [path |-> <<>>, dim |-> Some(dim), val |-> Some(v_e)]
             go_l == LET s == mut_rec_search_minimum(node.l, (dim + 1) % NB_DIM, target_dim)
                     IN [s EXCEPT !.path = <<"l">> \o @]
             go_r == LET s == mut_rec_search_minimum(node.r, (dim + 1) % NB_DIM, target_dim)
                     IN [s EXCEPT !.path = <<"r">> \o @]
         IN CASE ~has_l /\ ~has_r -> here
              [] ~has_l /\ has_r  -> IF v_r < v_e THEN go_r ELSE here
              [] has_l /\ ~has_r  -> IF v_l < v_e THEN go_l ELSE here
              [] has_l /\ has_r   -> IF v_l < v_e /\ v_l < v_r THEN go_l
                                     ELSE IF v_r < v_e THEN go_r
                                     ELSE here

RECURSIVE rec_search_minimum_ties_left(_, _, _)
\* minimum search that goes left when the two children offer the same bound
rec_search_minimum_ties_left(link, dim, target_dim) ==
    IF link = None THEN [path |-> <<>>, dim |-> None, val |-> None]
    ELSE LET node == link[1]
             v_e == kth(node.e, target_dim)
             has_l == node.l # None
             has_r == node.r # None
             v_l == node.l[1].b[target_dim + 1][1]
             v_r == node.r[1].b[target_dim + 1][1]
             here == [path |-> <<>>, dim |-> Some(dim), val |-> Some(v_e)]
             go_l == LET s == rec_search_minimum_ties_left(node.l, (dim + 1) % NB_DIM, target_dim)
                     IN [s EXCEPT !.path = <<"l">> \o @]
             go_r == LET s == rec_search_minimum_ties_left(node.r, (dim + 1) % NB_DIM, target_dim)
                     IN [s EXCEPT !.path = <<"r">> \o @]
         IN CASE ~has_l /\ ~has_r -> here
              [] ~has_l /\ has_r  -> IF v_r < v_e THEN go_r ELSE here
              [] has_l /\ ~has_r  -> IF v_l < v_e THEN go_l ELSE here
              [] has_l /\ has_r   -> IF v_l < v_e /\ v_l <= v_r THEN go_l
                                     ELSE IF v_r < v_e THEN go_r
                                     ELSE here

RECURSIVE rec_search_minimum(_, _, _)
\* KDTreeFront::rec_search_minimum
rec_search_minimum(link, dim, target_dim) ==
    IF link = None THEN [path |-> <<>>, dim |-> None, val |-> None]
    ELSE LET node == link[1]
             v_e == kth(node.e, target_dim)
             has_l == node.l # None
             has_r == node.r # None
             v_l == node.l[1].b[target_dim + 1][1]
             v_r == node.r[1].b[target_dim + 1][1]
             here == [path |-> <<>>, dim |-> Some(dim), val |-> Some(v_e)]
             go_l == LET s == rec_search_minimum(node.l, (dim + 1) % NB_DIM, target_dim)
                     IN [s EXCEPT !.path = <<"l">> \o @]
             go_r == LET s == rec_search_minimum(node.r, (dim + 1) % NB_DIM, target_dim)
                     IN [s EXCEPT !.path = <<"r">> \o @]
         IN CASE ~has_l /\ ~has_r -> here
              [] ~has_l /\ has_r  -> IF v_r < v_e THEN go_r ELSE here
              [] has_l /\ ~has_r  -> IF v_l < v_e THEN go_l ELSE here
              [] has_l /\ has_r   -> IF v_l < v_e /\ v_l < v_r THEN go_l
                                     ELSE IF v_r < v_e THEN go_r
                                     ELSE here

RECURSIVE LinkAt(_, _)
\* dereference of a link reference: the link reached from `link` by `path`
LinkAt(link, path) ==
    IF path = <<>> THEN link
    ELSE LinkAt(IF Head(path) = "l" THEN link[1].l ELSE link[1].r, Tail(path))

RECURSIVE remove_link(_, _)
RECURSIVE remove_link_at(_, _, _)
\* KDTreeFront::remove_link; yields the link after the mutation and the result
remove_link(link, dim) ==
    IF link = None THEN [link |-> None, res |-> None]
    ELSE LET node == link[1] IN
         IF node.l = None /\ node.r = None
         THEN [link |-> None, res |-> Some(node.e)]
         ELSE LET left == IF node.r # None THEN node.l ELSE None
                  right == IF node.r # None THEN node.r ELSE node.l
                  m == mut_rec_search_minimum(right, dim, dim)
                  rm == remove_link_at(right, m.path, dim)
                  elt == rm.res[1]
                  n2 == update_bounds([e |-> elt, l |-> left, r |-> rm.link, b |-> node.b])
              IN [link |-> Some(n2), res |-> Some(node.e)]

\* remove_link applied through the `&mut Link` that a search returned:
\* only the link at the end of `path` is handed to remove_link, the nodes
\* above it are not touched
remove_link_at(link, path, dim) ==
    IF path = <<>> THEN remove_link(link, dim)
    ELSE LET node == link[1]
             sub == remove_link_at(IF Head(path) = "l" THEN node.l ELSE node.r,
                                   Tail(path), dim)
         IN [link |-> IF Head(path) = "l" THEN Some([node EXCEPT !.l = sub.link])
                      ELSE Some([node EXCEPT !.r = sub.link]),
             res |-> sub.res]

\* remove_and_return that deletes the root when the search finds nothing
remove_and_return_root(rt, elt) ==
    LET s == search(rt, elt) IN
    IF s.dim = None THEN remove_link(rt, 0)
    ELSE remove_link_at(rt, s.path, s.dim[1])

\* KDTreeFront::remove_and_return
remove_and_return(rt, elt) ==
    LET s == search(rt, elt) IN
    IF s.dim = None THEN [link |-> rt, res |-> None]
    ELSE remove_link_at(rt, s.path, s.dim[1])

\* KDTreeFront::is_empty
is_empty(rt) == rt = None

RECURSIVE rec_exists_dominating_maxbound(_, _)
\* rec_exists_dominating that prunes on the upper bound instead of the lower
rec_exists_dominating_maxbound(link, elt) ==
    IF link = None THEN None
    ELSE LET node == link[1] IN
         IF \E i \in 1..NB_DIM : elt[i] < node.b[i][2] THEN None
         ELSE IF dominates(node.e, elt) THEN Some(node.e)
         ELSE LET inl == rec_exists_dominating_maxbound(node.l, elt) IN
              IF inl # None THEN inl ELSE rec_exists_dominating_maxbound(node.r, elt)

RECURSIVE rec_exists_dominating(_, _)
\* KDTreeFront::rec_exists_dominating
rec_exists_dominating(link, elt) ==
    IF link = None THEN None
    ELSE LET node == link[1] IN
         IF \E i \in 1..NB_DIM : elt[i] < node.b[i][1] THEN None
         ELSE IF dominates(node.e, elt) THEN Some(node.e)
         ELSE LET inl == rec_exists_dominating(node.l, elt) IN
              IF inl # None THEN inl ELSE rec_exists_dominating(node.r, elt)

RECURSIVE rec_remove_dominated_by_minbound(_, _, _)
\* rec_remove_dominated_by that prunes on the lower bound instead of the upper
rec_remove_dominated_by_minbound(link, elt, dim) ==
    IF link = None THEN link
    ELSE LET node == link[1] IN
         IF \E i \in 1..NB_DIM : elt[i] > node.b[i][1] THEN link
         ELSE LET n2 == [node EXCEPT
                           !.l = rec_remove_dominated_by_minbound(node.l, elt, (dim + 1) % NB_DIM),
                           !.r = rec_remove_dominated_by_minbound(node.r, elt, (dim + 1) % NB_DIM)]
              IN IF dominates(elt, n2.e) THEN remove_link(Some(n2), dim).link
                 ELSE Some(n2)

RECURSIVE rec_remove_dominated_by(_, _, _)
\* KDTreeFront::rec_remove_dominated_by; yields the link after the mutation
rec_remove_dominated_by(link, elt, dim) ==
    IF link = None THEN link
    ELSE LET node == link[1] IN
         IF \E i \in 1..NB_DIM : elt[i] > node.b[i][2] THEN link
         ELSE LET n2 == [node EXCEPT
                           !.l = rec_remove_dominated_by(node.l, elt, (dim + 1) % NB_DIM),
                           !.r = rec_remove_dominated_by(node.r, elt, (dim + 1) % NB_DIM)]
              IN IF dominates(elt, n2.e) THEN remove_link(Some(n2), dim).link
                 ELSE Some(n2)

\* find_dominating that only tests the element of the root node
find_dominating_root_only(rt, elt) ==
    IF rt # None /\ dominates(rt[1].e, elt) THEN Some(rt[1].e) ELSE None

\* KDTreeFront::find_dominating
find_dominating(rt, elt) == rec_exists_dominating(rt, elt)

\* KDTreeFront::peek_minimum_element
peek_minimum_element(rt, dim) ==
    LET m == rec_search_minimum(rt, 0, dim)
        min_node == LinkAt(rt, m.path)
    IN IF min_node = None THEN None ELSE Some(min_node[1].e)

\* ParetoFront::peek_minimum_coordinate
peek_minimum_coordinate(rt, dim) ==
    LET p == peek_minimum_element(rt, dim)
    IN IF p = None THEN None ELSE Some(kth(p[1], dim))

\* KDTreeFront::pop_minimum_element
pop_minimum_element(rt, dim) ==
    LET m == mut_rec_search_minimum(rt, 0, dim) IN
    IF m.dim = None THEN [link |-> rt, res |-> None]
    ELSE remove_link_at(rt, m.path, m.dim[1])

\* insert that skips the sweep of the elements dominated by elt
insert_no_sweep(rt, elt) ==
    IF find_dominating(rt, elt) # None THEN [link |-> rt, res |-> FALSE]
    ELSE [link |-> insert_without_check(rt, elt), res |-> TRUE]

\* KDTreeFront::insert; yields the new root link and the returned boolean
insert(rt, elt) ==
    IF find_dominating(rt, elt) # None THEN [link |-> rt, res |-> FALSE]
    ELSE [link |-> insert_without_check(rec_remove_dominated_by(rt, elt, 0), elt),
          res |-> TRUE]

\* KDTreeFront::remove
remove(rt, elt) ==
    LET rr == remove_and_return(rt, elt) IN [link |-> rr.link, res |-> rr.res # None]

(***************************************************************************)
(* State.                                                                  *)
(*   front: which front was created: [impl |-> "pareto_pq", guide |->      *)
(*     "none"] for pareto_pq::kd_tree::KDTreeFront, or [impl |->           *)
(*     "priority_queue", guide |-> g] for priority_queue::kd_tree::        *)
(*     KDTreeFront over elements whose GuidedElement::guide is g.          *)
(*   root: the front's root link.                                          *)
(*   op, ret: name and result of the last public call.                     *)
(*   last_insert: bookkeeping for the claims that relate an insert to the  *)
(*     tree it was applied to; only the *Tracked actions fill it:          *)
(*       Some([stage |-> "inserted", elt, elems]) after a successful       *)
(*         insert(elt) applied to a tree holding the elements `elems`,     *)
(*       Some([stage |-> "removed", elt, elems]) after the remove(elt)     *)
(*         that directly follows that insert,                              *)
(*       None otherwise.                                                   *)
(*   log: bookkeeping of the build-then-drain and build-then-delete        *)
(*     scenarios (see SpecDrain, SpecDelete); None elsewhere.              *)
(*   elements: the Vec of the ListParetoFront that is run side by side     *)
(*     with the kd-tree front (see SpecBoth); <<>> elsewhere.              *)
(*   stored: the family of sets a TrieSetStore was given by insert and not *)
(*     by a later remove (see SpecTrie); {} elsewhere.                     *)
(*   args: the arguments of the last call of a pure function (see          *)
(*     SpecDominates); None elsewhere.                                     *)
(***************************************************************************)
VARIABLES front, root, op, ret, last_insert, log, elements, stored, args

vars == <<front, root, op, ret, last_insert, log, elements, stored, args>>

(***************************************************************************)
(* The guided variant: priority_queue::kd_tree::KDTreeFront.  Nodes are    *)
(* records [e, l, r, b, guide_lb, guide_ub].                               *)
(***************************************************************************)

\* largest coordinate of the elements given to the guided front
PqMaxCoord == 4

\* the elements given to the guided front: priority_queue::util::
\* CartesianParetoElement<NB_DIM> with small coordinates
PqElts == [1..NB_DIM -> 0..PqMaxCoord]

\* sum of the coordinates i..NB_DIM of an element
RECURSIVE SumFrom(_, _)
SumFrom(e, i) == IF i > NB_DIM THEN 0 ELSE e[i] + SumFrom(e, i + 1)

\* the guide functions offered to the guided front
Guides == {"sum", "first", "antisum"}

\* GuidedElement::guide: "sum" is CartesianParetoElement::guide; "first" and
\* "antisum" are other implementations of the trait (the first coordinate;
\* a guide that decreases when the coordinates grow)
guide(e) ==
    CASE front.guide = "sum"     -> SumFrom(e, 1)
      [] front.guide = "first"   -> e[1]
      [] front.guide = "antisum" -> NB_DIM * PqMaxCoord - SumFrom(e, 1)

\* Node::compute_bounds (guided): the bounds, the guide lower and upper bound
pq_compute_bounds(e, l, r) ==
    LET b0 == [b |-> [i \in 1..NB_DIM |-> <<e[i], e[i]>>], lb |-> guide(e), ub |-> guide(e)]
        merge(acc, n) ==
            [b |-> [i \in 1..NB_DIM |->
                      <<Min2(acc.b[i][1], n.b[i][1]), Max2(acc.b[i][2], n.b[i][2])>>],
             lb |-> Min2(n.guide_lb, acc.lb),
             ub |-> Max2(n.guide_ub, acc.ub)]
        b1 == IF l = None THEN b0 ELSE merge(b0, l[1])
        b2 == IF r = None THEN b1 ELSE merge(b1, r[1])
    IN b2

\* Node::update_bounds (guided)
pq_update_bounds(node) ==
    LET c == pq_compute_bounds(node.e, node.l, node.r)
    IN [node EXCEPT !.b = c.b, !.guide_lb = c.lb, !.guide_ub = c.ub]

\* Node::new (guided)
pq_Node_new(e, l, r) ==
    LET c == pq_compute_bounds(e, l, r)
    IN [e |-> e, l |-> l, r |-> r, b |-> c.b, guide_lb |-> c.lb, guide_ub |-> c.ub]

\* Node::attach_left (guided)
pq_attach_left(node, t) == pq_update_bounds([node EXCEPT !.l = t])

\* Node::attach_right (guided)
pq_attach_right(node, t) == pq_update_bounds([node EXCEPT !.r = t])

RECURSIVE pq_rec_insert_without_check(_, _, _)
\* KDTreeFront::rec_insert_without_check (guided)
pq_rec_insert_without_check(node, elt, dim) ==
    LET n1 == IF kth(elt, dim) < kth(node.e, dim)
              THEN IF node.l = None
                   THEN pq_attach_left(node, Some(pq_Node_new(elt, None, None)))
                   ELSE [node EXCEPT !.l =
                            Some(pq_rec_insert_without_check(node.l[1], elt, (dim + 1) % NB_DIM))]
              ELSE IF node.r = None
                   THEN pq_attach_right(node, Some(pq_Node_new(elt, None, None)))
                   ELSE [node EXCEPT !.r =
                            Some(pq_rec_insert_without_check(node.r[1], elt, (dim + 1) % NB_DIM))]
    IN pq_update_bounds(n1)

\* KDTreeFront::insert_without_check (guided)
pq_insert_without_check(rt, elt) ==
    IF rt = None THEN Some(pq_Node_new(elt, None, None))
    ELSE Some(pq_rec_insert_without_check(rt[1], elt, 0))

RECURSIVE rec_search_min_guide_ties_left(_, _)
\* rec_search_min_guide that goes left when the two children offer the same
\* guide bound
rec_search_min_guide_ties_left(link, dim) ==
    IF link = None THEN [path |-> <<>>, dim |-> None]
    ELSE LET node == link[1]
             ge == guide(node.e)
             has_l == node.l # None
             has_r == node.r # None
             g_l == node.l[1].guide_lb
             g_r == node.r[1].guide_lb
             here == [path |-> <<>>, dim |-> Some(dim)]
             go_l == LET s == rec_search_min_guide_ties_left(node.l, (dim + 1) % NB_DIM)
                     IN [s EXCEPT !.path = <<"l">> \o @]
             go_r == LET s == rec_search_min_guide_ties_left(node.r, (dim + 1) % NB_DIM)
                     IN [s EXCEPT !.path = <<"r">> \o @]
         IN CASE ~has_l /\ ~has_r -> here
              [] ~has_l /\ has_r  -> IF g_r < ge THEN go_r ELSE here
              [] has_l /\ ~has_r  -> IF g_l < ge THEN go_l ELSE here
              [] has_l /\ has_r   -> IF g_l < ge /\ g_l <= g_r THEN go_l
                                     ELSE IF g_r < ge THEN go_r
                                     ELSE here

RECURSIVE rec_search_min_guide(_, _)
\* KDTreeFront::rec_search_min_guide
rec_search_min_guide(link, dim) ==
    IF link = None THEN [path |-> <<>>, dim |-> None]
    ELSE LET node == link[1]
             ge == guide(node.e)
             has_l == node.l # None
             has_r == node.r # None
             g_l == node.l[1].guide_lb
             g_r == node.r[1].guide_lb
             here == [path |-> <<>>, dim |-> Some(dim)]
             go_l == LET s == rec_search_min_guide(node.l, (dim + 1) % NB_DIM)
                     IN [s EXCEPT !.path = <<"l">> \o @]
             go_r == LET s == rec_search_min_guide(node.r, (dim + 1) % NB_DIM)
                     IN [s EXCEPT !.path = <<"r">> \o @]
         IN CASE ~has_l /\ ~has_r -> here
              [] ~has_l /\ has_r  -> IF g_r < ge THEN go_r ELSE here
              [] has_l /\ ~has_r  -> IF g_l < ge THEN go_l ELSE here
              [] has_l /\ has_r   -> IF g_l < ge /\ g_l < g_r THEN go_l
                                     ELSE IF g_r < ge THEN go_r
                                     ELSE here

RECURSIVE mut_rec_search_min_guide(_, _)
\* KDTreeFront::mut_rec_search_min_guide
mut_rec_search_min_guide(link, dim) ==
    IF link = None THEN [path |-> <<>>, dim |-> None]
    ELSE LET node == link[1]
             ge == guide(node.e)
             has_l == node.l # None
             has_r == node.r # None
             g_l == node.l[1].guide_lb
             g_r == node.r[1].guide_lb
             here == [path |-> <<>>, dim |-> Some(dim)]
             go_l == LET s == mut_rec_search_min_guide(node.l, (dim + 1) % NB_DIM)
                     IN [s EXCEPT !.path = <<"l">> \o @]
             go_r == LET s == mut_rec_search_min_guide(node.r, (dim + 1) % NB_DIM)
                     IN [s EXCEPT !.path = <<"r">> \o @]
         IN CASE ~has_l /\ ~has_r -> here
              [] ~has_l /\ has_r  -> IF g_r < ge THEN go_r ELSE here
              [] has_l /\ ~has_r  -> IF g_l < ge THEN go_l ELSE here
              [] has_l /\ has_r   -> IF g_l < ge /\ g_l < g_r THEN go_l
                                     ELSE IF g_r < ge THEN go_r
                                     ELSE here

RECURSIVE pq_mut_rec_search_minimum(_, _, _)
\* KDTreeFront::mut_rec_search_minimum (guided)
pq_mut_rec_search_minimum(link, dim, target_dim) ==
    IF link = None THEN [path |-> <<>>, dim |-> None, val |-> None]
    ELSE LET node == link[1]
             v_e == kth(node.e, target_dim)
             has_l == node.l # None
             has_r == node.r # None
             v_l == node.l[1].b[target_dim + 1][1]
             v_r == node.r[1].b[target_dim + 1][1]
             here == [path |-> <<>>, dim |-> Some(dim), val |-> Some(v_e)]
             go_l == LET s == pq_mut_rec_search_minimum(node.l, (dim + 1) % NB_DIM, target_dim)
                     IN [s EXCEPT !.path = <<"l">> \o @]
             go_r == LET s == pq_mut_rec_search_minimum(node.r, (dim + 1) % NB_DIM, target_dim)
                     IN [s EXCEPT !.path = <<"r">> \o @]
         IN CASE ~has_l /\ ~has_r -> here
              [] ~has_l /\ has_r  -> IF v_r < v_e THEN go_r ELSE here
              [] has_l /\ ~has_r  -> IF v_l < v_e THEN go_l ELSE here
              [] has_l /\ has_r   -> IF v_l < v_e /\ v_l < v_r THEN go_l
                                     ELSE IF v_r < v_e THEN go_r
                                     ELSE here

RECURSIVE pq_remove_link(_, _)
RECURSIVE pq_remove_link_at(_, _, _)
\* KDTreeFront::remove_link (guided)
pq_remove_link(link, dim) ==
    IF link = None THEN [link |-> None, res |-> None]
    ELSE LET node == link[1] IN
         IF node.l = None /\ node.r = None
         THEN [link |-> None, res |-> Some(node.e)]
         ELSE LET left == IF node.r # None THEN node.l ELSE None
                  right == IF node.r # None THEN node.r ELSE node.l
                  m == pq_mut_rec_search_minimum(right, dim, dim)
                  rm == pq_remove_link_at(right, m.path, dim)
                  elt == rm.res[1]
                  n2 == pq_update_bounds([node EXCEPT !.e = elt, !.l = left, !.r = rm.link])
              IN [link |-> Some(n2), res |-> Some(node.e)]

\* remove_link (guided) applied through the `&mut Link` that a search returned
pq_remove_link_at(link, path, dim) ==
    IF path = <<>> THEN pq_remove_link(link, dim)
    ELSE LET node == link[1]
             sub == pq_remove_link_at(IF Head(path) = "l" THEN node.l ELSE node.r,
                                      Tail(path), dim)
         IN [link |-> IF Head(path) = "l" THEN Some([node EXCEPT !.l = sub.link])
                      ELSE Some([node EXCEPT !.r = sub.link]),
             res |-> sub.res]

RECURSIVE pq_rec_remove_dominated_by_minbound(_, _, _)
\* the guided sweep that prunes on the lower bound instead of the upper
pq_rec_remove_dominated_by_minbound(link, elt, dim) ==
    IF link = None THEN link
    ELSE LET node == link[1] IN
         IF \E i \in 1..NB_DIM : elt[i] > node.b[i][1] THEN link
         ELSE LET n2 == [node EXCEPT
                           !.l = pq_rec_remove_dominated_by_minbound(node.l, elt, (dim + 1) % NB_DIM),
                           !.r = pq_rec_remove_dominated_by_minbound(node.r, elt, (dim + 1) % NB_DIM)]
              IN IF dominates(elt, n2.e) THEN pq_remove_link(Some(n2), dim).link
                 ELSE Some(n2)

RECURSIVE pq_rec_remove_dominated_by(_, _, _)
\* KDTreeFront::rec_remove_dominated_by (guided)
pq_rec_remove_dominated_by(link, elt, dim) ==
    IF link = None THEN link
    ELSE LET node == link[1] IN
         IF \E i \in 1..NB_DIM : elt[i] > node.b[i][2] THEN link
         ELSE LET n2 == [node EXCEPT
                           !.l = pq_rec_remove_dominated_by(node.l, elt, (dim + 1) % NB_DIM),
                           !.r = pq_rec_remove_dominated_by(node.r, elt, (dim + 1) % NB_DIM)]
              IN IF dominates(elt, n2.e) THEN pq_remove_link(Some(n2), dim).link
                 ELSE Some(n2)

RECURSIVE pq_rec_exists_dominating(_, _)
\* KDTreeFront::rec_exists_dominating (guided)
pq_rec_exists_dominating(link, elt) ==
    IF link = None THEN None
    ELSE LET node == link[1] IN
         IF \E i \in 1..NB_DIM : elt[i] < node.b[i][1] THEN None
         ELSE IF dominates(node.e, elt) THEN Some(node.e)
         ELSE LET inl == pq_rec_exists_dominating(node.l, elt) IN
              IF inl # None THEN inl ELSE pq_rec_exists_dominating(node.r, elt)

RECURSIVE rec_update_bounds(_)
\* KDTreeFront::rec_update_bounds
rec_update_bounds(link) ==
    IF link = None THEN link
    ELSE Some(pq_update_bounds([link[1] EXCEPT !.l = rec_update_bounds(link[1].l),
                                               !.r = rec_update_bounds(link[1].r)]))

\* KDTreeFront::find_dominating (guided)
pq_find_dominating(rt, elt) == pq_rec_exists_dominating(rt, elt)

\* peek_minimum that reports only elements below the root
peek_minimum_below_root(rt) ==
    LET m == rec_search_min_guide(rt, 0)
    IN IF m.path = <<>> THEN None ELSE Some(LinkAt(rt, m.path)[1].e)

\* KDTreeFront::peek_minimum
peek_minimum(rt) ==
    LET m == rec_search_min_guide(rt, 0)
        link == LinkAt(rt, m.path)
    IN IF link = None THEN None ELSE Some(link[1].e)

\* pop_minimum without the refresh of the bounds that follows the deletion
pop_minimum_no_refresh(rt) ==
    LET m == mut_rec_search_min_guide(rt, 0) IN
    IF m.dim = None THEN [link |-> rt, res |-> None]
    ELSE pq_remove_link_at(rt, m.path, m.dim[1])

\* KDTreeFront::pop_minimum
pop_minimum(rt) ==
    LET m == mut_rec_search_min_guide(rt, 0) IN
    IF m.dim = None THEN [link |-> rt, res |-> None]
    ELSE LET rm == pq_remove_link_at(rt, m.path, m.dim[1])
         IN [link |-> rec_update_bounds(rm.link), res |-> rm.res]

\* the guided insert without the sweep of the elements dominated by elt
pq_insert_no_sweep(rt, elt) ==
    IF pq_find_dominating(rt, elt) # None THEN [link |-> rt, res |-> FALSE]
    ELSE [link |-> pq_insert_without_check(rt, elt), res |-> TRUE]

\* KDTreeFront::insert (guided)
pq_insert(rt, elt) ==
    IF pq_find_dominating(rt, elt) # None THEN [link |-> rt, res |-> FALSE]
    ELSE [link |-> pq_insert_without_check(pq_rec_remove_dominated_by(rt, elt, 0), elt),
          res |-> TRUE]

\* KDTreeFront::peek_minimum_guide
peek_minimum_guide(rt) == IF rt = None THEN None ELSE Some(rt[1].guide_lb)

\* KDTreeFront::peek_maximum_guide
peek_maximum_guide(rt) == IF rt = None THEN None ELSE Some(rt[1].guide_ub)

\* PriorityQueue::is_empty
pq_is_empty(rt) == peek_minimum(rt) = None

(***************************************************************************)
(* Brute-force observations of a tree, independent of the cached bounds.   *)
(***************************************************************************)
RECURSIVE Elems(_)
\* the set of elements stored in the subtree of a link
Elems(link) ==
    IF link = None THEN {}
    ELSE {link[1].e} \cup Elems(link[1].l) \cup Elems(link[1].r)

RECURSIVE Size(_)
\* the number of nodes in the subtree of a link
Size(link) ==
    IF link = None THEN 0 ELSE 1 + Size(link[1].l) + Size(link[1].r)

\* KDTreeFront::default / create_empty
Init ==
    /\ front = [impl |-> "pareto_pq", guide |-> "none"]
    /\ root = None
    /\ op = "create_empty"
    /\ ret = None
    /\ last_insert = None
    /\ log = None
    /\ elements = <<>>
    /\ stored = {}
    /\ args = None

\* the effect of insert(elt) on the front and its result
InsertCall(elt) ==
    LET r == insert(root, elt) IN
    /\ op' = "insert"
    /\ root' = r.link
    /\ ret' = r.res
    /\ UNCHANGED front

\* the effect of remove(elt) on the front and its result
RemoveCall(elt) ==
    LET r == remove(root, elt) IN
    /\ op' = "remove"
    /\ root' = r.link
    /\ ret' = r.res
    /\ UNCHANGED front

Insert(elt) == InsertCall(elt) /\ last_insert' = None /\ UNCHANGED <<log, elements, stored, args>>

Remove(elt) == RemoveCall(elt) /\ last_insert' = None /\ UNCHANGED <<log, elements, stored, args>>

PopMinimumElement(dim) ==
    LET r == pop_minimum_element(root, dim) IN
    /\ op' = "pop_minimum_element"
    /\ root' = r.link
    /\ ret' = r.res
    /\ last_insert' = None
    /\ UNCHANGED <<front, log, elements, stored, args>>

PeekMinimumElement(dim) ==
    /\ op' = "peek_minimum_element"
    /\ root' = root
    /\ ret' = peek_minimum_element(root, dim)
    /\ last_insert' = None
    /\ UNCHANGED <<front, log, elements, stored, args>>

FindDominating(elt) ==
    /\ op' = "find_dominating"
    /\ root' = root
    /\ ret' = find_dominating(root, elt)
    /\ last_insert' = None
    /\ UNCHANGED <<front, log, elements, stored, args>>

Next ==
    \/ \E elt \in Elts : Insert(elt)
    \/ \E elt \in Elts : Remove(elt)
    \/ \E dim \in DimSet : PopMinimumElement(dim)
    \/ \E dim \in DimSet : PeekMinimumElement(dim)
    \/ \E elt \in Elts : FindDominating(elt)

Spec == Init /\ [][Next]_vars

\* insert(elt), remembering the tree a successful insert was applied to
InsertTracked(elt) ==
    /\ InsertCall(elt)
    /\ last_insert' = IF insert(root, elt).res
                      THEN Some([stage |-> "inserted", elt |-> elt, elems |-> Elems(root)])
                      ELSE None
    /\ UNCHANGED <<log, elements, stored, args>>

\* remove(elt), remembering whether it directly follows a successful insert(elt)
RemoveTracked(elt) ==
    /\ RemoveCall(elt)
    /\ last_insert' = IF last_insert # None /\ last_insert[1].stage = "inserted"
                         /\ last_insert[1].elt = elt
                      THEN Some([last_insert[1] EXCEPT !.stage = "removed"])
                      ELSE None
    /\ UNCHANGED <<log, elements, stored, args>>

NextTracked ==
    \/ \E elt \in Elts : InsertTracked(elt)
    \/ \E elt \in Elts : RemoveTracked(elt)
    \/ \E dim \in DimSet : PopMinimumElement(dim)

\* the mutating operations only, with the insert bookkeeping
SpecTracked == Init /\ [][NextTracked]_vars

(***************************************************************************)
(* Build-then-drain: a front is filled with at most MaxBuild distinct      *)
(* elements by insert_without_check or insert, then emptied by successive  *)
(* pop_minimum_element(dim) on one dimension.  While the front is drained, *)
(* log = [phase |-> "drain", dim, built, popped]: the dimension, the       *)
(* elements the front held when the draining began, and the elements       *)
(* popped so far, in order.                                                *)
(***************************************************************************)

\* KDTreeFront::insert_without_check of an element not yet in the front
BuildInsertWithoutCheck(elt) ==
    /\ op' = "insert_without_check"
    /\ log = None
    /\ Size(root) < MaxBuild
    /\ elt \notin Elems(root)
    /\ root' = insert_without_check(root, elt)
    /\ ret' = None
    /\ UNCHANGED <<front, last_insert, log, elements, stored, args>>

\* KDTreeFront::insert while the front is being filled
BuildInsert(elt) ==
    /\ log = None
    /\ Size(root) < MaxBuild
    /\ Insert(elt)

\* one pop_minimum_element(dim) of the draining
DrainPop(dim) ==
    /\ op' = "pop_minimum_element"
    /\ root # None
    /\ log # None => (log[1].phase = "drain" /\ log[1].dim = dim)
    /\ LET r == pop_minimum_element(root, dim) IN
         /\ root' = r.link
         /\ ret' = r.res
         /\ log' = IF log = None
                   THEN Some([phase |-> "drain", dim |-> dim, built |-> Elems(root),
                              popped |-> <<r.res[1]>>])
                   ELSE Some([log[1] EXCEPT !.popped = Append(@, r.res[1])])
    /\ UNCHANGED <<front, last_insert, elements, stored, args>>

NextDrain ==
    \/ \E elt \in Elts : BuildInsertWithoutCheck(elt)
    \/ \E elt \in Elts : BuildInsert(elt)
    \/ \E dim \in DimSet : DrainPop(dim)

SpecDrain == Init /\ [][NextDrain]_vars

(***************************************************************************)
(* Build-then-delete: a front is filled with at most MaxBuild distinct     *)
(* elements by insert_without_check, then its elements are deleted one by  *)
(* one, in any order, by remove_and_return.  While elements are deleted,   *)
(* log = [phase |-> "delete", built, deleted]: the elements the front held *)
(* when the deleting began and the elements remove_and_return was called   *)
(* on so far.                                                              *)
(***************************************************************************)

\* remove_and_return of an element of the build that was not deleted yet
DeleteRemoveAndReturn(elt) ==
    /\ op' = "remove_and_return"
    /\ root # None
    /\ log # None => (log[1].phase = "delete" /\ elt \in log[1].built \ log[1].deleted)
    /\ log = None => elt \in Elems(root)
    /\ LET r == remove_and_return(root, elt) IN
         /\ root' = r.link
         /\ ret' = r.res
    /\ log' = IF log = None
              THEN Some([phase |-> "delete", built |-> Elems(root), deleted |-> {elt}])
              ELSE Some([log[1] EXCEPT !.deleted = @ \cup {elt}])
    /\ UNCHANGED <<front, last_insert, elements, stored, args>>

NextDelete ==
    \/ \E elt \in Elts : BuildInsertWithoutCheck(elt)
    \/ \E elt \in Elts : DeleteRemoveAndReturn(elt)

SpecDelete == Init /\ [][NextDelete]_vars

(***************************************************************************)
(* The guided front: priority_queue::kd_tree::KDTreeFront.                 *)
(***************************************************************************)

\* KDTreeFront::default for the guided front, over any of the guide functions
InitGuided ==
    /\ front \in {[impl |-> "priority_queue", guide |-> g] : g \in Guides}
    /\ root = None
    /\ op = "create_empty"
    /\ ret = None
    /\ last_insert = None
    /\ log = None
    /\ elements = <<>>
    /\ stored = {}
    /\ args = None

\* KDTreeFront::default for the guided front over CartesianParetoElement
InitGuidedSum == InitGuided /\ front.guide = "sum"

\* PriorityQueue::insert on the guided front
PqInsert(elt) ==
    /\ op' = "insert"
    /\ LET r == pq_insert(root, elt) IN root' = r.link /\ ret' = r.res
    /\ UNCHANGED <<front, last_insert, log, elements, stored, args>>

\* PriorityQueue::pop_minimum on the guided front
PqPopMinimum ==
    /\ op' = "pop_minimum"
    /\ LET r == pop_minimum(root) IN root' = r.link /\ ret' = r.res
    /\ UNCHANGED <<front, last_insert, log, elements, stored, args>>

\* PriorityQueue::peek_minimum on the guided front
PqPeekMinimum ==
    /\ op' = "peek_minimum"
    /\ ret' = peek_minimum(root)
    /\ UNCHANGED <<front, root, last_insert, log, elements, stored, args>>

\* PriorityQueue::peek_minimum_guide on the guided front
PqPeekMinimumGuide ==
    /\ op' = "peek_minimum_guide"
    /\ ret' = peek_minimum_guide(root)
    /\ UNCHANGED <<front, root, last_insert, log, elements, stored, args>>

\* PriorityQueue::peek_maximum_guide on the guided front
PqPeekMaximumGuide ==
    /\ op' = "peek_maximum_guide"
    /\ ret' = peek_maximum_guide(root)
    /\ UNCHANGED <<front, root, last_insert, log, elements, stored, args>>

NextGuided ==
    \/ \E elt \in PqElts : PqInsert(elt)
    \/ PqPopMinimum
    \/ PqPeekMinimum
    \/ PqPeekMinimumGuide
    \/ PqPeekMaximumGuide

SpecGuided == InitGuided /\ [][NextGuided]_vars

\* the guided front over CartesianParetoElement: insert, pop_minimum and
\* peek_minimum
NextGuidedSum ==
    \/ \E elt \in PqElts : PqInsert(elt)
    \/ PqPopMinimum
    \/ PqPeekMinimum

SpecGuidedSum == InitGuidedSum /\ [][NextGuidedSum]_vars

\* the guided front over CartesianParetoElement under insert and pop_minimum
NextGuidedInsertPop ==
    \/ \E elt \in PqElts : PqInsert(elt)
    \/ PqPopMinimum

SpecGuidedInsertPop == InitGuidedSum /\ [][NextGuidedInsertPop]_vars

\* either front, freshly created
InitFronts == Init \/ InitGuidedSum

\* the operations of either front that add or take elements
NextFronts ==
    \/ /\ front.impl = "pareto_pq"
       /\ \/ \E elt \in Elts : Insert(elt)
          \/ \E elt \in Elts : Remove(elt)
          \/ \E dim \in DimSet : PopMinimumElement(dim)
    \/ /\ front.impl = "priority_queue"
       /\ \/ \E elt \in PqElts : PqInsert(elt)
          \/ PqPopMinimum

SpecFronts == InitFronts /\ [][NextFronts]_vars

\* true (min, max) of coordinate i (1-based) over a non-empty set of elements
TrueBound(S, i) ==
    <<CHOOSE v \in {e[i] : e \in S} : \A w \in {e[i] : e \in S} : v <= w,
      CHOOSE v \in {e[i] : e \in S} : \A w \in {e[i] : e \in S} : v >= w>>

RECURSIVE BoundsExact(_)
\* every node's cached bounds equal the brute-force bounds of its subtree
BoundsExact(link) ==
    IF link = None THEN TRUE
    ELSE /\ \A i \in 1..NB_DIM : link[1].b[i] = TrueBound(Elems(link), i)
         /\ BoundsExact(link[1].l)
         /\ BoundsExact(link[1].r)

RECURSIVE Partitioned(_, _)
\* every node splits its subtree on its discriminant dimension
Partitioned(link, dim) ==
    IF link = None THEN TRUE
    ELSE /\ \A x \in Elems(link[1].l) : kth(x, dim) < kth(link[1].e, dim)
         /\ \A x \in Elems(link[1].r) : kth(x, dim) >= kth(link[1].e, dim)
         /\ Partitioned(link[1].l, (dim + 1) % NB_DIM)
         /\ Partitioned(link[1].r, (dim + 1) % NB_DIM)

\* no two distinct elements of S dominate one another
Antichain(S) ==
    \A a \in S : \A b \in S : a # b => ~dominates(a, b) /\ ~dominates(b, a)

\* no element is stored in two nodes
NoDuplicate(link) == Size(link) = Cardinality(Elems(link))

\* the elements of S dominated by elt
DominatedBy(S, elt) == {x \in S : dominates(elt, x)}

\* some element of S dominates elt
IsDominated(S, elt) == \E d \in S : dominates(d, elt)

(***************************************************************************)
(* C1..C10: the coordinate kd-tree front                                   *)
(***************************************************************************)

\* C1: after every operation the present elements form an antichain: no two
\* distinct present elements (nodes) dominate one another.
C1_Antichain == Antichain(Elems(root)) /\ NoDuplicate(root)

\* C1 witness: an insert that evicted a dominated element and left a front
\* of at least three elements.
C1_Witness ==
    /\ last_insert # None /\ last_insert[1].stage = "inserted"
    /\ DominatedBy(last_insert[1].elems, last_insert[1].elt) # {}
    /\ Size(root) >= 3

\* C2: pop_minimum_element(dim) on a non-empty tree returns a present element
\* with the globally smallest coordinate[dim] and removes exactly that element.
C2_PopMinimum ==
    [][\A dim \in DimSet : (PopMinimumElement(dim) /\ root # None) =>
        /\ ret' # None
        /\ ret'[1] \in Elems(root)
        /\ \A x \in Elems(root) : kth(ret'[1], dim) <= kth(x, dim)
        /\ Elems(root') = Elems(root) \ {ret'[1]}
        /\ Size(root') = Size(root) - 1]_vars

\* C3: after every public operation every node's cached bounds equal the true
\* (min, max) of each coordinate over the node's subtree.
C3_BoundsExact == BoundsExact(root)

\* C4: after every public operation every node at depth d has, on dimension
\* d mod k, strictly smaller elements in its left subtree and greater or equal
\* elements in its right subtree.
C4_Partition == Partitioned(root, 0)

\* C5: in every reachable state, insert(e) of an element dominated by a present
\* element returns false and leaves the tree (elements, shape, cached bounds)
\* unchanged.
C5_RejectedInsert ==
    \A elt \in Elts : IsDominated(Elems(root), elt) =>
        insert(root, elt) = [link |-> root, res |-> FALSE]

\* C5 witness: an insert was rejected by a front of at least three elements.
C5_Witness == op = "insert" /\ ret = FALSE /\ Size(root) >= 3

\* C6: in every reachable state, insert(e) of an element no present element
\* dominates returns true and the new set of elements is the old set minus the
\* elements e dominates, plus e (each stored once).
C6_EvictingInsert ==
    \A elt \in Elts : ~IsDominated(Elems(root), elt) =>
        LET r == insert(root, elt) IN
        /\ r.res = TRUE
        /\ Elems(r.link) = (Elems(root) \ DominatedBy(Elems(root), elt)) \cup {elt}
        /\ NoDuplicate(r.link)

\* C6 witness: an insert that evicted two elements and kept another one.
C6_Witness ==
    /\ last_insert # None /\ last_insert[1].stage = "inserted"
    /\ Cardinality(DominatedBy(last_insert[1].elems, last_insert[1].elt)) >= 2
    /\ Size(root) >= 2

\* C7: remove(elt) returns true iff elt is present; when true exactly elt is
\* removed, when false the set of elements is unchanged.
C7_Remove ==
    [][\A elt \in Elts : Remove(elt) =>
        /\ ret' = (elt \in Elems(root))
        /\ ret' = TRUE => /\ Elems(root') = Elems(root) \ {elt}
                          /\ Size(root') = Size(root) - 1
        /\ ret' = FALSE => Elems(root') = Elems(root)]_vars

\* C8 as stated: remove(elt) immediately after a successful insert(elt)
\* returns true and the tree contents equal the pre-insert contents.
C8_RoundTrip ==
    (last_insert # None /\ last_insert[1].stage = "removed") =>
        (ret = TRUE /\ Elems(root) = last_insert[1].elems)

\* C8 amended: remove(elt) immediately after a successful insert(elt) returns
\* true and the tree contents equal the pre-insert contents minus the elements
\* that elt dominates (which the insert evicted).
C8_RoundTripAmended ==
    (last_insert # None /\ last_insert[1].stage = "removed") =>
        /\ ret = TRUE
        /\ Elems(root) = last_insert[1].elems
                            \ DominatedBy(last_insert[1].elems, last_insert[1].elt)
        /\ NoDuplicate(root)

\* C8 witness: a round trip whose insert evicted an element and kept another.
C8_Witness ==
    /\ last_insert # None /\ last_insert[1].stage = "removed"
    /\ DominatedBy(last_insert[1].elems, last_insert[1].elt) # {}
    /\ Size(root) >= 1

\* C9: in every reachable state, find_dominating(elt) returns a present element
\* dominating elt whenever one exists, and None only when no present element
\* dominates elt.
C9_FindDominating ==
    \A elt \in Elts :
        LET r == find_dominating(root, elt) IN
        /\ r # None => (r[1] \in Elems(root) /\ dominates(r[1], elt))
        /\ r = None <=> ~IsDominated(Elems(root), elt)

\* C9 witness: the dominating element is found below the root.
C9_Witness ==
    /\ op = "find_dominating" /\ ret # None
    /\ ret[1] # root[1].e
    /\ Size(root) >= 3

\* C10: peek_minimum_element(dim) returns a present element with minimal
\* coordinate[dim], and None only for the empty tree.
C10_PeekMinimum ==
    [][\A dim \in DimSet : PeekMinimumElement(dim) =>
        /\ ret' = None <=> root = None
        /\ ret' # None => /\ ret'[1] \in Elems(root)
                          /\ \A x \in Elems(root) : kth(ret'[1], dim) <= kth(x, dim)
                          /\ peek_minimum_coordinate(root, dim) =
                                 Some(TrueBound(Elems(root), dim + 1)[1])]_vars

(***************************************************************************)
(* C11..C15: the coordinate kd-tree front, continued                       *)
(***************************************************************************)

\* C11: pop_minimum_element(dim) returns None exactly when the tree is empty,
\* and remove / remove_and_return of an element that is not present return
\* false / None and leave the tree as it was (the empty tree included).
C11_NotFound ==
    /\ \A dim \in DimSet : (pop_minimum_element(root, dim).res = None) <=> (Elems(root) = {})
    /\ \A elt \in Elts \ Elems(root) :
          /\ remove_and_return(root, elt) = [link |-> root, res |-> None]
          /\ remove(root, elt) = [link |-> root, res |-> FALSE]

\* a remove that returned false on a partitioned tree of two or more elements:
\* search finds every element of a partitioned tree, so the element asked for
\* was not present
C11_Witness ==
    op = "remove" /\ ret = FALSE /\ Size(root) >= 2 /\ Partitioned(root, 0)

\* C12: is_empty() is true exactly when the front holds no element, for the
\* coordinate front (root is None) and for the guided front (peek_minimum()
\* is None); it is true once the last element was removed or popped and false
\* while an element remains.
C12_IsEmpty ==
    /\ front.impl = "pareto_pq" =>
          /\ is_empty(root) <=> Elems(root) = {}
          /\ \A dim \in DimSet :
                is_empty(pop_minimum_element(root, dim).link) <=> Size(root) <= 1
          /\ \A elt \in Elems(root) :
                is_empty(remove(root, elt).link) <=> Elems(root) = {elt}
    /\ front.impl = "priority_queue" =>
          /\ pq_is_empty(root) <=> Elems(root) = {}
          /\ pq_is_empty(pop_minimum(root).link) <=> Size(root) <= 1

\* the guided front just after pop_minimum took its last element
C12_Witness ==
    /\ front.impl = "priority_queue"
    /\ op = "pop_minimum"
    /\ ret # None
    /\ pq_is_empty(root)

\* C13: a front holding n distinct elements (built with insert_without_check
\* or insert) is emptied by n successive pop_minimum_element(dim): each call
\* returns an element, the returned values of coordinate dim never decrease,
\* every element is returned exactly once and the front is empty at the end.
C13_DrainOrder ==
    (log # None /\ log[1].phase = "drain") =>
        LET l == log[1]
            n == Len(l.popped)
        IN /\ \A i \in 1..(n - 1) : kth(l.popped[i], l.dim) <= kth(l.popped[i + 1], l.dim)
           /\ \A i, j \in 1..n : l.popped[i] = l.popped[j] => i = j
           /\ {l.popped[i] : i \in 1..n} \cup Elems(root) = l.built
           /\ n + Size(root) = Cardinality(l.built)
           /\ root # None => pop_minimum_element(root, l.dim).res # None

\* C14: in a front of distinct elements built by insert_without_check, after
\* each deletion by remove_and_return (in any order) every remaining element
\* is still found by search, a second remove_and_return of a deleted element
\* returns None, and the front is empty once all are deleted.
C14_DeleteLocatable ==
    (log # None /\ log[1].phase = "delete") =>
        LET l == log[1] IN
        /\ \A e \in l.built \ l.deleted : search(root, e).dim # None
        /\ \A e \in l.deleted : remove_and_return(root, e).res = None
        /\ l.deleted = l.built => is_empty(root)

\* C15: insert(e) of an element equal to a present one returns false and
\* leaves the tree as it was, holding exactly one copy of e; the tree never
\* holds two equal elements.
C15_DuplicateInsert ==
    /\ \A e \in Elems(root) :
          LET r == insert(root, e) IN
          /\ r.res = FALSE
          /\ r.link = root
          /\ Size(r.link) = Cardinality(Elems(r.link))
          /\ e \in Elems(r.link)
    /\ NoDuplicate(root)

\* a rejected insert into the front that holds only the largest element: the
\* only element it dominates is itself, so the rejected element was equal to it
C15_Witness ==
    /\ op = "insert"
    /\ ret = FALSE
    /\ Size(root) = 1
    /\ \A i \in 1..NB_DIM : root[1].e[i] = MaxCoord

(***************************************************************************)
(* C16..C20: the guided kd-tree front                                      *)
(***************************************************************************)

\* the smallest and the largest guide() among the elements of S (S not empty)
MinGuide(S) == CHOOSE g \in {guide(x) : x \in S} : \A x \in S : g <= guide(x)

MaxGuide(S) == CHOOSE g \in {guide(x) : x \in S} : \A x \in S : g >= guide(x)

\* C16: whatever the guide function, pop_minimum on a non-empty guided front
\* removes exactly one element and returns an element whose guide() is minimal
\* among the present elements; it returns None only on the empty front.
C16_PopMinimumGuide ==
    LET p == pop_minimum(root) IN
    IF root = None THEN p.res = None
    ELSE /\ p.res # None
         /\ p.res[1] \in Elems(root)
         /\ guide(p.res[1]) = MinGuide(Elems(root))
         /\ Elems(p.link) = Elems(root) \ {p.res[1]}
         /\ Size(p.link) = Size(root) - 1

\* guide_lb and guide_ub of every node are the smallest and the largest
\* guide() over the node's subtree
RECURSIVE GuideBoundsExact(_)
GuideBoundsExact(link) ==
    link = None \/
    LET node == link[1]
        S == Elems(link)
    IN /\ node.guide_lb = MinGuide(S)
       /\ node.guide_ub = MaxGuide(S)
       /\ GuideBoundsExact(node.l)
       /\ GuideBoundsExact(node.r)

\* C17: with the sum-of-coordinates guide, peek_minimum returns a present
\* element of minimum guide, and successive pop_minimum calls return elements
\* in non-decreasing guide order until the front is empty.
C17_SumGuideOrder ==
    LET p == pop_minimum(root)
        q == pop_minimum(p.link)
        k == peek_minimum(root)
    IN IF root = None THEN k = None /\ p.res = None
       ELSE /\ k # None
            /\ k[1] \in Elems(root)
            /\ guide(k[1]) = MinGuide(Elems(root))
            /\ p.res # None
            /\ guide(p.res[1]) = MinGuide(Elems(root))
            /\ Elems(p.link) = Elems(root) \ {p.res[1]}
            /\ q.res # None => guide(p.res[1]) <= guide(q.res[1])
            /\ q.res = None <=> Size(root) = 1

\* an evicting insert left a stale guide bound in a front of three or more
\* elements over the sum guide
C17_Witness ==
    /\ front.guide = "sum"
    /\ op = "insert"
    /\ ret = TRUE
    /\ Size(root) >= 3
    /\ ~GuideBoundsExact(root)

\* C18: peek_minimum_guide() is the smallest guide() over the present
\* elements, None exactly on the empty front, and always equals
\* peek_minimum().map(guide).
C18_PeekMinimumGuide ==
    LET g == peek_minimum_guide(root)
        k == peek_minimum(root)
    IN IF Elems(root) = {} THEN g = None /\ k = None
       ELSE /\ g = Some(MinGuide(Elems(root)))
            /\ k # None
            /\ g = Some(guide(k[1]))

\* C19: peek_maximum_guide() is the largest guide() over the present elements,
\* None exactly on the empty front.
C19_PeekMaximumGuide ==
    LET g == peek_maximum_guide(root)
    IN IF Elems(root) = {} THEN g = None
       ELSE g = Some(MaxGuide(Elems(root)))

\* C20: after every public operation of the guided front, every node's
\* bounds[i] is the true (min, max) of coordinate i over its subtree and its
\* guide_lb / guide_ub are the true min / max of guide() over its subtree.
C20_GuidedBounds == BoundsExact(root) /\ GuideBoundsExact(root)

(***************************************************************************)
(* C21..C22: the guided kd-tree front, continued                           *)
(***************************************************************************)

\* C21: after every insert and pop_minimum of the guided front, no two
\* distinct present elements dominate one another.
C21_GuidedAntichain ==
    /\ \A a, b \in Elems(root) : a # b => ~dominates(a, b)
    /\ Size(root) = Cardinality(Elems(root))

\* the guided front holds three or more elements just after an insert evicted
\* one (a stale bound is the trace an eviction leaves)
C21_Witness ==
    /\ front.impl = "priority_queue"
    /\ op = "insert"
    /\ ret = TRUE
    /\ Size(root) >= 3
    /\ ~BoundsExact(root)

\* C22: insert(elt) on the guided front returns false and keeps the set of
\* elements iff a present element dominates elt; otherwise it returns true and
\* the set becomes the previous set minus the elements elt dominates, plus
\* elt; pop_minimum only ever returns a present element, so an evicted element
\* is never returned later.
C22_GuidedInsert ==
    /\ \A elt \in PqElts :
          LET r == pq_insert(root, elt) IN
          IF IsDominated(Elems(root), elt)
          THEN r.res = FALSE /\ Elems(r.link) = Elems(root)
          ELSE /\ r.res = TRUE
               /\ Elems(r.link) = (Elems(root) \ DominatedBy(Elems(root), elt)) \cup {elt}
               /\ Size(r.link) = Cardinality(Elems(r.link))
    /\ LET p == pop_minimum(root) IN
          /\ p.res # None => p.res[1] \in Elems(root)
          /\ Elems(p.link) \subseteq Elems(root)

\* an insert was rejected by a guided front of three or more elements that an
\* earlier insert had evicted from
C22_Witness ==
    /\ front.impl = "priority_queue"
    /\ op = "insert"
    /\ ret = FALSE
    /\ Size(root) >= 3
    /\ ~BoundsExact(root)

(***************************************************************************)
(* ListParetoFront (pareto_pq/list.rs): the front kept in a Vec            *)
(***************************************************************************)

\* Vec::swap_remove: position i takes the last element, the Vec loses one
swap_remove(v, i) ==
    IF i = Len(v) THEN SubSeq(v, 1, Len(v) - 1)
    ELSE SubSeq([v EXCEPT ![i] = v[Len(v)]], 1, Len(v) - 1)

\* the set of elements held by a Vec
ListElems(v) == {v[i] : i \in 1..Len(v)}

\* ListParetoFront::find_dominating: the first element that dominates elt
list_find_dominating(v, elt) ==
    LET hits == {i \in 1..Len(v) : dominates(v[i], elt)} IN
    IF hits = {} THEN None
    ELSE Some(v[CHOOSE i \in hits : \A j \in hits : i <= j])

\* retain(|e| !elt.dominates(e)): the filter of insert, kept apart so that
\* the eviction can be varied
list_retain_not_dominated(v, elt) ==
    LET keep(e) == ~dominates(elt, e) IN SelectSeq(v, keep)

\* ListParetoFront::insert
list_insert(v, elt) ==
    IF list_find_dominating(v, elt) = None
    THEN [v |-> Append(list_retain_not_dominated(v, elt), elt), res |-> TRUE]
    ELSE [v |-> v, res |-> FALSE]

\* ListParetoFront::remove: swap_remove of the first equal element
list_remove(v, elt) ==
    LET hits == {i \in 1..Len(v) : v[i] = elt} IN
    IF hits = {} THEN [v |-> v, res |-> FALSE]
    ELSE [v |-> swap_remove(v, CHOOSE i \in hits : \A j \in hits : i <= j),
          res |-> TRUE]

\* ListParetoFront::pop_minimum_element: min_by_key yields the first of the
\* positions whose coordinate dim is minimal
list_pop_minimum_element(v, dim) ==
    IF Len(v) = 0 THEN [v |-> v, res |-> None]
    ELSE LET mins == {i \in 1..Len(v) :
                         \A j \in 1..Len(v) : kth(v[i], dim) <= kth(v[j], dim)}
             min_pos == CHOOSE i \in mins : \A j \in mins : i <= j
         IN  [v |-> swap_remove(v, min_pos), res |-> Some(v[min_pos])]

\* the same insert given to the kd-tree front and to the list front; log
\* keeps the answer of the list front next to ret, the answer of the kd-tree
BothInsert(elt) ==
    LET r == list_insert(elements, elt) IN
    /\ InsertCall(elt)
    /\ elements' = r.v
    /\ log' = [phase |-> "both", ret |-> r.res]
    /\ last_insert' = None
    /\ UNCHANGED <<stored, args>>

\* the same remove given to both fronts
BothRemove(elt) ==
    LET r == list_remove(elements, elt) IN
    /\ RemoveCall(elt)
    /\ elements' = r.v
    /\ log' = [phase |-> "both", ret |-> r.res]
    /\ last_insert' = None
    /\ UNCHANGED <<stored, args>>

NextBoth ==
    \/ \E elt \in Elts : BothInsert(elt)
    \/ \E elt \in Elts : BothRemove(elt)

\* a KDTreeFront and a ListParetoFront, both started empty, driven in
\* lockstep
SpecBoth == Init /\ [][NextBoth]_vars

(***************************************************************************)
(* C23..C30                                                                *)
(***************************************************************************)

\* C23: the kd-tree front and the list front, started empty and given the
\* same insert and remove calls, answer every call with the same boolean and
\* hold the same set of elements after every call; whenever they hold the
\* same set, pop_minimum_element(dim) returns elements with the same
\* coordinate dim in both.
C23_Substitutable ==
    /\ log # None => ret = log.ret
    /\ Elems(root) = ListElems(elements)
    /\ \A dim \in DimSet :
          LET k == pop_minimum_element(root, dim).res
              l == list_pop_minimum_element(elements, dim).res
          IN  Elems(root) = ListElems(elements) =>
                  /\ (k = None) = (l = None)
                  /\ k # None => kth(k[1], dim) = kth(l[1], dim)

RECURSIVE SubLinks(_)
\* the non-empty links of a tree: the link itself and those below it
SubLinks(link) ==
    IF link = None THEN {}
    ELSE {link} \cup SubLinks(link[1].l) \cup SubLinks(link[1].r)

\* remove_link that would call itself on the link it was given
remove_link_calls_self(link, dim) ==
    IF link = None THEN {} ELSE {link}

\* the links KDTreeFront::remove_link(link, dim) calls itself on: none for an
\* empty link or a leaf, else the min_link found in the subtree that takes
\* the place of the right child
remove_link_calls(link, dim) ==
    IF link = None THEN {}
    ELSE LET node == link[1] IN
         IF node.l = None /\ node.r = None THEN {}
         ELSE LET right == IF node.r # None THEN node.r ELSE node.l
                  m == mut_rec_search_minimum(right, dim, dim)
              IN {LinkAt(right, m.path)}

\* remove_link (guided) that would call itself on the link it was given
pq_remove_link_calls_self(link, dim) ==
    IF link = None THEN {} ELSE {link}

\* the links the guided KDTreeFront::remove_link(link, dim) calls itself on
pq_remove_link_calls(link, dim) ==
    IF link = None THEN {}
    ELSE LET node == link[1] IN
         IF node.l = None /\ node.r = None THEN {}
         ELSE LET right == IF node.r # None THEN node.r ELSE node.l
                  m == pq_mut_rec_search_minimum(right, dim, dim)
              IN {LinkAt(right, m.path)}

RECURSIVE rec_remove_dominated_by_calls(_, _, _)
\* the <<link, dim>> that KDTreeFront::rec_remove_dominated_by hands to
\* remove_link during the sweep of link: a dominated node is removed after
\* the sweep of its two children
rec_remove_dominated_by_calls(link, elt, dim) ==
    IF link = None THEN {}
    ELSE LET node == link[1] IN
         IF \E i \in 1..NB_DIM : elt[i] > node.b[i][2] THEN {}
         ELSE LET n2 == [node EXCEPT
                           !.l = rec_remove_dominated_by(node.l, elt, (dim + 1) % NB_DIM),
                           !.r = rec_remove_dominated_by(node.r, elt, (dim + 1) % NB_DIM)]
              IN rec_remove_dominated_by_calls(node.l, elt, (dim + 1) % NB_DIM)
                 \cup rec_remove_dominated_by_calls(node.r, elt, (dim + 1) % NB_DIM)
                 \cup (IF dominates(elt, n2.e) THEN {<<Some(n2), dim>>} ELSE {})

RECURSIVE pq_rec_remove_dominated_by_calls(_, _, _)
\* the same for the sweep of the guided front
pq_rec_remove_dominated_by_calls(link, elt, dim) ==
    IF link = None THEN {}
    ELSE LET node == link[1] IN
         IF \E i \in 1..NB_DIM : elt[i] > node.b[i][2] THEN {}
         ELSE LET n2 == [node EXCEPT
                           !.l = pq_rec_remove_dominated_by(node.l, elt, (dim + 1) % NB_DIM),
                           !.r = pq_rec_remove_dominated_by(node.r, elt, (dim + 1) % NB_DIM)]
              IN pq_rec_remove_dominated_by_calls(node.l, elt, (dim + 1) % NB_DIM)
                 \cup pq_rec_remove_dominated_by_calls(node.r, elt, (dim + 1) % NB_DIM)
                 \cup (IF dominates(elt, n2.e) THEN {<<Some(n2), dim>>} ELSE {})

\* the calls of remove_link the public operations of the coordinate front can
\* make on the present tree: remove and pop_minimum_element delete a link of
\* the tree, insert deletes the dominated nodes met by its sweep, and every
\* call can go on into the links below the one it was given
RemoveLinkCalls ==
    (SubLinks(root) \X DimSet)
    \cup UNION {UNION {SubLinks(c[1]) \X {c[2]} :
                          c \in rec_remove_dominated_by_calls(root, elt, 0)} :
                   elt \in {e \in Elts : find_dominating(root, e) = None}}

\* the same for the guided front: pop_minimum and the sweep of insert
PqRemoveLinkCalls ==
    (SubLinks(root) \X DimSet)
    \cup UNION {UNION {SubLinks(c[1]) \X {c[2]} :
                          c \in pq_rec_remove_dominated_by_calls(root, elt, 0)} :
                   elt \in {e \in PqElts : pq_find_dominating(root, e) = None}}

\* C24: every public operation terminates on every reachable tree. The
\* searches and the sweeps call themselves on the two children of the node
\* they are at; remove_link calls itself on the minimum link of the right
\* subtree: in every call remove_link can receive, that link is present and
\* holds strictly fewer nodes than the link of the caller, so that the
\* promotion ends at a leaf after at most as many calls as the link has nodes.
C24_Terminates ==
    IF front.impl = "pareto_pq"
    THEN \A c \in RemoveLinkCalls : \A m \in remove_link_calls(c[1], c[2]) :
             m # None /\ Size(m) < Size(c[1])
    ELSE \A c \in PqRemoveLinkCalls : \A m \in pq_remove_link_calls(c[1], c[2]) :
             m # None /\ Size(m) < Size(c[1])

\* a remove has deleted a node by promotion, and the tree still holds a link
\* whose removal makes remove_link call itself on a node that is no leaf
C24_Witness ==
    /\ front.impl = "pareto_pq" /\ op = "remove" /\ ret = TRUE
    /\ \E t \in SubLinks(root), dim \in DimSet :
          \E m1 \in remove_link_calls(t, dim) :
              remove_link_calls(m1, dim) # {}

\* a call a.dominates(b) on two CartesianParetoElement
Dominates(a, b) ==
    /\ op' = "dominates"
    /\ args' = Some(<<a, b>>)
    /\ ret' = dominates(a, b)
    /\ UNCHANGED <<front, root, last_insert, log, elements, stored>>

NextDominates == \E a, b \in PqElts : Dominates(a, b)

\* dominance tests between any two elements
SpecDominates == Init /\ [][NextDominates]_vars

\* C25: a.dominates(b) is the weak componentwise order: it is true iff
\* a[i] <= b[i] for every i; it is reflexive, transitive, and two elements
\* dominate one another only if they are equal.
C25_WeakOrder ==
    args # None =>
        LET a == args[1][1]
            b == args[1][2]
        IN  /\ ret = (\A i \in 1..NB_DIM : a[i] <= b[i])
            /\ dominates(a, a)
            /\ \A c \in PqElts : ret /\ dominates(b, c) => dominates(a, c)
            /\ ret /\ dominates(b, a) => a = b

\* a.dominates(b) was true for two distinct elements
C25_Witness ==
    /\ op = "dominates" /\ ret = TRUE
    /\ args[1][1] # args[1][2]

(***************************************************************************)
(* NaiveKDTreeFront (pareto_pq/naive_kd_tree.rs): the kd-tree without      *)
(* cached bounds; a node is [e, l, r]                                      *)
(***************************************************************************)

\* Node::new of the naive tree
nk_Node_new(e, l, r) == [e |-> e, l |-> l, r |-> r]

RECURSIVE nk_rec_insert_without_check(_, _, _)
\* NaiveKDTreeFront::rec_insert_without_check; yields the node after the call
nk_rec_insert_without_check(node, elt, dim) ==
    IF kth(elt, dim) < kth(node.e, dim)
    THEN IF node.l = None
         THEN [node EXCEPT !.l = Some(nk_Node_new(elt, None, None))]
         ELSE [node EXCEPT !.l = Some(nk_rec_insert_without_check(node.l[1], elt, (dim + 1) % NB_DIM))]
    ELSE IF node.r = None
         THEN [node EXCEPT !.r = Some(nk_Node_new(elt, None, None))]
         ELSE [node EXCEPT !.r = Some(nk_rec_insert_without_check(node.r[1], elt, (dim + 1) % NB_DIM))]

\* NaiveKDTreeFront::insert_without_check
nk_insert_without_check(rt, elt) ==
    IF rt = None THEN Some(nk_Node_new(elt, None, None))
    ELSE Some(nk_rec_insert_without_check(rt[1], elt, 0))

RECURSIVE nk_rec_search_minimum(_, _, _)
\* NaiveKDTreeFront::rec_search_minimum: the path to the link found, the
\* dimension of its node and its coordinate target_dim
nk_rec_search_minimum(link, dim, target_dim) ==
    IF link = None THEN [path |-> <<>>, dim |-> None, val |-> None]
    ELSE LET node == link[1]
             ev == kth(node.e, target_dim)
             here == [path |-> <<>>, dim |-> Some(dim), val |-> Some(ev)]
             go_l == LET s == nk_rec_search_minimum(node.l, (dim + 1) % NB_DIM, target_dim)
                     IN [s EXCEPT !.path = <<"l">> \o @]
             go_r == LET s == nk_rec_search_minimum(node.r, (dim + 1) % NB_DIM, target_dim)
                     IN [s EXCEPT !.path = <<"r">> \o @]
         IN IF dim = target_dim
            THEN IF node.l = None THEN here ELSE go_l
            ELSE LET l_v == go_l.val
                     r_v == go_r.val
                 IN CASE l_v = None /\ r_v = None -> here
                      [] l_v = None /\ r_v # None -> IF r_v[1] < ev THEN go_r ELSE here
                      [] l_v # None /\ r_v = None -> IF l_v[1] < ev THEN go_l ELSE here
                      [] l_v # None /\ r_v # None ->
                             IF l_v[1] < ev /\ l_v[1] < r_v[1] THEN go_l
                             ELSE IF r_v[1] < ev THEN go_r
                             ELSE here

RECURSIVE nk_remove_link(_, _)
RECURSIVE nk_remove_link_at(_, _, _)
\* NaiveKDTreeFront::remove_link; yields the link after the mutation and the
\* result
nk_remove_link(link, dim) ==
    IF link = None THEN [link |-> None, res |-> None]
    ELSE LET node == link[1] IN
         IF node.l = None /\ node.r = None
         THEN [link |-> None, res |-> Some(node.e)]
         ELSE LET left == IF node.r # None THEN node.l ELSE None
                  right == IF node.r # None THEN node.r ELSE node.l
                  m == nk_rec_search_minimum(right, dim, dim)
                  rm == nk_remove_link_at(right, m.path, dim)
              IN [link |-> Some([e |-> rm.res[1], l |-> left, r |-> rm.link]),
                  res |-> Some(node.e)]

\* remove_link applied through the `&mut Link` that a search returned
nk_remove_link_at(link, path, dim) ==
    IF path = <<>> THEN nk_remove_link(link, dim)
    ELSE LET node == link[1]
             sub == nk_remove_link_at(IF Head(path) = "l" THEN node.l ELSE node.r,
                                      Tail(path), dim)
         IN [link |-> IF Head(path) = "l" THEN Some([node EXCEPT !.l = sub.link])
                      ELSE Some([node EXCEPT !.r = sub.link]),
             res |-> sub.res]

RECURSIVE nk_rec_exists_dominating(_, _)
\* NaiveKDTreeFront::rec_exists_dominating
nk_rec_exists_dominating(link, elt) ==
    IF link = None THEN None
    ELSE IF dominates(link[1].e, elt) THEN Some(link[1].e)
    ELSE LET inl == nk_rec_exists_dominating(link[1].l, elt) IN
         IF inl # None THEN inl ELSE nk_rec_exists_dominating(link[1].r, elt)

RECURSIVE nk_rec_remove_dominated_by(_, _, _)
\* NaiveKDTreeFront::rec_remove_dominated_by; yields the link after the sweep
nk_rec_remove_dominated_by(link, elt, dim) ==
    IF link = None THEN link
    ELSE LET n2 == [link[1] EXCEPT
                      !.l = nk_rec_remove_dominated_by(link[1].l, elt, (dim + 1) % NB_DIM),
                      !.r = nk_rec_remove_dominated_by(link[1].r, elt, (dim + 1) % NB_DIM)]
         IN IF dominates(elt, n2.e) THEN nk_remove_link(Some(n2), dim).link
            ELSE Some(n2)

\* NaiveKDTreeFront::find_dominating
nk_find_dominating(rt, elt) == nk_rec_exists_dominating(rt, elt)

\* NaiveKDTreeFront::pop_minimum_element
nk_pop_minimum_element(rt, dim) ==
    LET m == nk_rec_search_minimum(rt, 0, dim) IN
    IF m.dim = None THEN [link |-> rt, res |-> None]
    ELSE nk_remove_link_at(rt, m.path, m.dim[1])

\* NaiveKDTreeFront::insert
nk_insert(rt, elt) ==
    IF nk_find_dominating(rt, elt) # None THEN [link |-> rt, res |-> FALSE]
    ELSE [link |-> nk_insert_without_check(nk_rec_remove_dominated_by(rt, elt, 0), elt),
          res |-> TRUE]

\* NaiveKDTreeFront::default
InitNaive ==
    /\ front = [impl |-> "naive_kd_tree", guide |-> "none"]
    /\ root = None
    /\ op = "create_empty"
    /\ ret = None
    /\ last_insert = None
    /\ log = None
    /\ elements = <<>>
    /\ stored = {}
    /\ args = None

NkInsert(elt) ==
    LET r == nk_insert(root, elt) IN
    /\ op' = "insert"
    /\ root' = r.link
    /\ ret' = r.res
    /\ UNCHANGED <<front, last_insert, log, elements, stored, args>>

NkPopMinimumElement(dim) ==
    LET r == nk_pop_minimum_element(root, dim) IN
    /\ op' = "pop_minimum_element"
    /\ root' = r.link
    /\ ret' = r.res
    /\ UNCHANGED <<front, last_insert, log, elements, stored, args>>

NextNaive ==
    \/ \E elt \in Elts : NkInsert(elt)
    \/ \E dim \in DimSet : NkPopMinimumElement(dim)

SpecNaive == InitNaive /\ [][NextNaive]_vars

RECURSIVE NkDrain(_, _)
\* the coordinates dim returned by pop_minimum_element(dim) repeated until
\* the tree is empty
NkDrain(link, dim) ==
    IF link = None THEN <<>>
    ELSE LET p == nk_pop_minimum_element(link, dim)
         IN <<kth(p.res[1], dim)>> \o NkDrain(p.link, dim)

\* C26: after any sequence of insert and pop_minimum_element on a
\* NaiveKDTreeFront, pop_minimum_element(dim) on a non-empty tree returns an
\* element whose coordinate dim is minimal among the present elements, and
\* repeated pops on dim return non-decreasing coordinates until the tree is
\* empty.
C26_NaivePopMinimum ==
    \A dim \in DimSet :
        /\ root # None =>
              LET p == nk_pop_minimum_element(root, dim) IN
              /\ p.res # None
              /\ p.res[1] \in Elems(root)
              /\ \A x \in Elems(root) : kth(p.res[1], dim) <= kth(x, dim)
        /\ LET d == NkDrain(root, dim) IN
              /\ Len(d) = Size(root)
              /\ \A i \in 1..(Len(d) - 1) : d[i] <= d[i + 1]

(***************************************************************************)
(* TrieSetStore (set_store/set_trie.rs): a trie of sets given as strictly  *)
(* increasing sequences of usize values. A node is                         *)
(* [contains_set, children, nb_children, offset]; children is the Vec of   *)
(* links, the child for value v at position v - offset (0-based).          *)
(***************************************************************************)

\* the largest value of a set
MaxVal == 1

\* the largest number of sets stored together
MaxStored == 3

\* the largest value the counter nb_children of a node is let to reach: the
\* number of children of a full node
MaxNbChildren == MaxVal + 1

Vals == 0..MaxVal

RECURSIVE SortedSeq(_)
\* the strictly increasing sequence of the values of S
SortedSeq(S) ==
    IF S = {} THEN <<>>
    ELSE LET m == CHOOSE x \in S : \A y \in S : x <= y
         IN <<m>> \o SortedSeq(S \ {m})

\* the sets given to the store
Sets == {SortedSeq(S) : S \in SUBSET Vals}

\* Node::new, and the node add_child creates with the offset v + 1
trie_Node_new(offset) ==
    [contains_set |-> FALSE, children |-> <<>>, nb_children |-> 0, offset |-> offset]

\* Node::is_out_of_bounds
is_out_of_bounds(node, v) ==
    v < node.offset \/ v >= node.offset + Len(node.children)

\* Node::child / Node::child_mut
child(node, v) == node.children[v - node.offset + 1]

\* Node::add_child: the node after the call; the child is child(node, v)
add_child(node, v) ==
    LET missing == v + 1 - (node.offset + Len(node.children))
        padded == IF missing > 0
                  THEN node.children \o [i \in 1..missing |-> None]
                  ELSE node.children
        children_index == v - node.offset
    IN IF padded[children_index + 1] = None
       THEN [node EXCEPT !.nb_children = @ + 1,
                         !.children = [padded EXCEPT ![children_index + 1] =
                                          Some(trie_Node_new(v + 1))]]
       ELSE [node EXCEPT !.children = padded]

\* Node::remove_child: the node after the call
remove_child(node, v) ==
    IF is_out_of_bounds(node, v) THEN node
    ELSE IF v - node.offset >= Len(node.children) THEN node
    ELSE [node EXCEPT !.children[v - node.offset + 1] = None]

\* Node::add_set: the node after the call and the result
add_set(node) ==
    IF node.contains_set THEN [node |-> node, res |-> FALSE]
    ELSE [node |-> [node EXCEPT !.contains_set = TRUE], res |-> TRUE]

\* Node::has_set
has_set(node) == node.contains_set

\* Node::remove_set
remove_set(node) == [node EXCEPT !.contains_set = FALSE]

\* Node::nb_children
nb_children(node) == Len(node.children)

RECURSIVE trie_insert_from(_, _, _)
\* the loop of TrieSetStore::insert from the k-th value of s on
trie_insert_from(node, s, k) ==
    IF k > Len(s) THEN add_set(node)
    ELSE LET n1 == add_child(node, s[k])
             sub == trie_insert_from(child(n1, s[k])[1], s, k + 1)
         IN [node |-> [n1 EXCEPT !.children[s[k] - n1.offset + 1] = Some(sub.node)],
             res |-> sub.res]

\* TrieSetStore::insert
trie_insert(rt, s) ==
    LET r == trie_insert_from(rt[1], s, 1) IN [root |-> Some(r.node), res |-> r.res]

RECURSIVE trie_contains_path(_, _, _)
\* contains that only asks whether the path of s exists
trie_contains_path(node, s, k) ==
    IF k > Len(s) THEN TRUE
    ELSE IF is_out_of_bounds(node, s[k]) THEN FALSE
    ELSE IF child(node, s[k]) = None THEN FALSE
    ELSE trie_contains_path(child(node, s[k])[1], s, k + 1)

RECURSIVE trie_contains_from(_, _, _)
\* the loop of TrieSetStore::contains from the k-th value of s on
trie_contains_from(node, s, k) ==
    IF k > Len(s) THEN has_set(node)
    ELSE IF is_out_of_bounds(node, s[k]) THEN FALSE
    ELSE IF child(node, s[k]) = None THEN FALSE
    ELSE trie_contains_from(child(node, s[k])[1], s, k + 1)

\* TrieSetStore::contains
trie_contains(rt, s) == trie_contains_from(rt[1], s, 1)

RECURSIVE remove_rec_prune(_, _, _)
\* remove_rec that drops the child whenever it holds no set
remove_rec_prune(node, e, index) ==
    IF index = Len(e)
    THEN IF has_set(node) THEN [node |-> remove_set(node), res |-> TRUE]
         ELSE [node |-> node, res |-> FALSE]
    ELSE LET v == e[index + 1] IN
         IF is_out_of_bounds(node, v) THEN [node |-> node, res |-> FALSE]
         ELSE IF child(node, v) = None THEN [node |-> node, res |-> FALSE]
         ELSE LET sub == remove_rec_prune(child(node, v)[1], e, index + 1)
                  n1 == [node EXCEPT !.children[v - node.offset + 1] = Some(sub.node)]
              IN IF ~sub.res THEN [node |-> node, res |-> FALSE]
                 ELSE IF ~has_set(sub.node)
                 THEN [node |-> remove_child(n1, v), res |-> TRUE]
                 ELSE [node |-> n1, res |-> TRUE]

RECURSIVE remove_rec(_, _, _)
\* TrieSetStore::remove_rec (index is 0-based as in the code)
remove_rec(node, e, index) ==
    IF index = Len(e)
    THEN IF has_set(node) THEN [node |-> remove_set(node), res |-> TRUE]
         ELSE [node |-> node, res |-> FALSE]
    ELSE LET v == e[index + 1] IN
         IF is_out_of_bounds(node, v) THEN [node |-> node, res |-> FALSE]
         ELSE IF child(node, v) = None THEN [node |-> node, res |-> FALSE]
         ELSE LET sub == remove_rec(child(node, v)[1], e, index + 1)
                  n1 == [node EXCEPT !.children[v - node.offset + 1] = Some(sub.node)]
              IN IF ~sub.res THEN [node |-> node, res |-> FALSE]
                 ELSE IF nb_children(sub.node) = 0 /\ ~has_set(sub.node)
                 THEN [node |-> remove_child(n1, v), res |-> TRUE]
                 ELSE [node |-> n1, res |-> TRUE]

\* TrieSetStore::remove
trie_remove(rt, s) ==
    LET r == remove_rec(rt[1], s, 0) IN [root |-> Some(r.node), res |-> r.res]

RECURSIVE rec_find_subsets(_, _, _, _)
RECURSIVE rec_find_subsets_loop(_, _, _, _)
\* TrieSetStore::rec_find_subsets: the Vec of reported sequences (index is
\* 0-based as in the code)
rec_find_subsets(node, e, index, selected) ==
    (IF node.contains_set THEN <<selected>> ELSE <<>>)
    \o rec_find_subsets_loop(node, e, index, selected)

\* the iterations i, i + 1, .. of `for i in index..e.len()`
rec_find_subsets_loop(node, e, i, selected) ==
    IF i >= Len(e) THEN <<>>
    ELSE LET v == e[i + 1]
             rec_res == IF is_out_of_bounds(node, v) THEN <<>>
                        ELSE IF child(node, v) = None THEN <<>>
                        ELSE rec_find_subsets(child(node, v)[1], e, i, Append(selected, i))
         IN rec_res \o rec_find_subsets_loop(node, e, i + 1, selected)

\* TrieSetStore::find_subsets
find_subsets(rt, s) == rec_find_subsets(rt[1], s, 0, <<>>)

RECURSIVE rec_find_supersets(_, _, _, _)
RECURSIVE rec_find_supersets_below(_, _, _, _, _)
RECURSIVE rec_find_supersets_upto(_, _, _, _, _)
\* TrieSetStore::rec_find_supersets (index is 0-based as in the code)
rec_find_supersets(node, e, index, selected) ==
    IF index >= Len(e)
    THEN (IF node.contains_set THEN <<selected>> ELSE <<>>)
         \o rec_find_supersets_below(node, e, index, selected, 0)
    ELSE rec_find_supersets_upto(node, e, index, selected, 0)

\* the iterations i, i + 1, .. over the present children of the node
rec_find_supersets_below(node, e, index, selected, i) ==
    IF i >= Len(node.children) THEN <<>>
    ELSE LET c == node.children[i + 1]
             rec_res == IF c = None THEN <<>>
                        ELSE rec_find_supersets(c[1], e, index,
                                                Append(selected, i + node.offset))
         IN rec_res \o rec_find_supersets_below(node, e, index, selected, i + 1)

\* the iterations i, i + 1, .. of `for i in 0..v+1`
rec_find_supersets_upto(node, e, index, selected, i) ==
    LET v == e[index + 1] IN
    IF i >= v + 1 THEN <<>>
    ELSE LET rec_res ==
                 IF is_out_of_bounds(node, i) THEN <<>>
                 ELSE IF child(node, i) = None THEN <<>>
                 ELSE IF i = v
                 THEN rec_find_supersets(child(node, i)[1], e, index + 1, Append(selected, i))
                 ELSE rec_find_supersets(child(node, i)[1], e, index, Append(selected, i))
         IN rec_res \o rec_find_supersets_upto(node, e, index, selected, i + 1)

\* find_supersets that only looks for the query itself
find_supersets_exact(rt, s) ==
    IF trie_contains(rt, s) THEN <<s>> ELSE <<>>

\* TrieSetStore::find_supersets
find_supersets(rt, s) == rec_find_supersets(rt[1], s, 0, <<>>)

RECURSIVE MaxCounter(_)
\* the largest nb_children counter of the nodes of a trie
MaxCounter(node) ==
    LET below == {MaxCounter(node.children[i][1]) :
                     i \in {j \in 1..Len(node.children) : node.children[j] # None}}
    IN CHOOSE m \in below \cup {node.nb_children} :
           \A x \in below \cup {node.nb_children} : x <= m

\* TrieSetStore::default
InitTrie ==
    /\ front = [impl |-> "set_trie", guide |-> "none"]
    /\ root = Some(trie_Node_new(0))
    /\ op = "default"
    /\ ret = None
    /\ last_insert = None
    /\ log = None
    /\ elements = <<>>
    /\ stored = {}
    /\ args = None

TrieInsert(s) ==
    LET r == trie_insert(root, s) IN
    /\ op' = "insert"
    /\ Cardinality(stored \cup {s}) <= MaxStored
    /\ MaxCounter(r.root[1]) <= MaxNbChildren
    /\ root' = r.root
    /\ ret' = r.res
    /\ stored' = stored \cup {s}
    /\ UNCHANGED <<front, last_insert, log, elements, args>>

TrieRemove(s) ==
    LET r == trie_remove(root, s) IN
    /\ op' = "remove"
    /\ root' = r.root
    /\ ret' = r.res
    /\ stored' = stored \ {s}
    /\ UNCHANGED <<front, last_insert, log, elements, args>>

TrieContains(s) ==
    /\ op' = "contains"
    /\ ret' = trie_contains(root, s)
    /\ UNCHANGED <<front, root, last_insert, log, elements, stored, args>>

TrieFindSubsets(s) ==
    /\ op' = "find_subsets"
    /\ ret' = find_subsets(root, s)
    /\ UNCHANGED <<front, root, last_insert, log, elements, stored, args>>

TrieFindSupersets(s) ==
    /\ op' = "find_supersets"
    /\ ret' = find_supersets(root, s)
    /\ UNCHANGED <<front, root, last_insert, log, elements, stored, args>>

NextTrie ==
    \/ \E s \in Sets : TrieInsert(s)
    \/ \E s \in Sets : TrieRemove(s)
    \/ \E s \in Sets : TrieContains(s)

\* a TrieSetStore under insert, remove and contains
SpecTrie == InitTrie /\ [][NextTrie]_vars

NextTrieSubsets ==
    \/ \E s \in Sets : TrieInsert(s)
    \/ \E s \in Sets : TrieRemove(s)
    \/ \E s \in Sets : TrieFindSubsets(s)

\* a TrieSetStore under insert, remove and find_subsets
SpecTrieSubsets == InitTrie /\ [][NextTrieSubsets]_vars

NextTrieSupersets ==
    \/ \E s \in Sets : TrieInsert(s)
    \/ \E s \in Sets : TrieRemove(s)
    \/ \E s \in Sets : TrieFindSupersets(s)

\* a TrieSetStore under insert, remove and find_supersets
SpecTrieSupersets == InitTrie /\ [][NextTrieSupersets]_vars

\* the values of a sequence
Range(s) == {s[i] : i \in 1..Len(s)}

\* C27: insert(s) returns true iff s is not already stored; contains(s) is
\* true iff s was inserted and not removed since, so that a strict prefix or
\* subsequence of a stored set that was never inserted is not contained.
C27_InsertContains ==
    \A s \in Sets :
        LET r == trie_insert(root, s) IN
        /\ r.res = (s \notin stored)
        /\ trie_contains(root, s) = (s \in stored)
        /\ \A t \in Sets : trie_contains(r.root, t) = (t \in stored \cup {s})

\* contains has answered false while a stored set has a strict prefix that is
\* not stored
C27_Witness ==
    /\ op = "contains" /\ ret = FALSE
    /\ \E t \in stored : \E n \in 1..(Len(t) - 1) : SubSeq(t, 1, n) \notin stored

\* C28: remove(s) returns true iff s is stored; after a true result s is no
\* longer contained and every other stored set still is, the sets that share
\* a prefix with s or extend it included; after a false result the store is
\* unchanged.
C28_Remove ==
    \A s \in Sets :
        LET r == trie_remove(root, s) IN
        /\ r.res = (s \in stored)
        /\ r.res => /\ ~trie_contains(r.root, s)
                    /\ \A t \in stored \ {s} : trie_contains(r.root, t)
        /\ ~r.res => r.root = root

\* a remove has returned true and left an extension of a stored set in the
\* store
C28_Witness ==
    /\ op = "remove" /\ ret = TRUE
    /\ \E t \in stored : \E n \in 1..(Len(t) - 1) : SubSeq(t, 1, n) \in stored

\* C29: find_subsets(s) reports every stored set that is a subset of the
\* query s exactly once, as the sequence of its values, and nothing else.
C29_FindSubsets ==
    \A s \in Sets :
        LET out == find_subsets(root, s) IN
        /\ Range(out) = {t \in stored : Range(t) \subseteq Range(s)}
        /\ Len(out) = Cardinality(Range(out))

\* C30: find_supersets(s) reports every stored set that is a superset of the
\* query s exactly once, as the sequence of its values, and nothing else.
C30_FindSupersets ==
    \A s \in Sets :
        LET out == find_supersets(root, s) IN
        /\ Range(out) = {t \in stored : Range(s) \subseteq Range(t)}
        /\ Len(out) = Cardinality(Range(out))

\* find_supersets has reported two sets while a stored set is no superset of
\* the query
C30_Witness ==
    /\ op = "find_supersets" /\ Len(ret) >= 2
    /\ Cardinality(stored) > Len(ret)

(***************************************************************************)
(* C31..C38                                                                *)
(***************************************************************************)

RECURSIVE SubLinksAt(_, _)
\* the non-empty links of a tree, each with the depth of its node below the
\* link the walk started from (taken as depth)
SubLinksAt(link, depth) ==
    IF link = None THEN {}
    ELSE {<<link, depth>>} \cup SubLinksAt(link[1].l, depth + 1)
                           \cup SubLinksAt(link[1].r, depth + 1)

\* the call remove_link(link, dim) makes on itself: the min_link it deletes,
\* the dimension it passes on, and how many levels min_link lies below link
remove_link_rec_calls(link, dim) ==
    IF link = None THEN {}
    ELSE LET node == link[1] IN
         IF node.l = None /\ node.r = None THEN {}
         ELSE LET right == IF node.r # None THEN node.r ELSE node.l
                  m == mut_rec_search_minimum(right, dim, dim)
              IN {[link |-> LinkAt(right, m.path), dim |-> dim,
                   below |-> 1 + Len(m.path)]}

\* a link whose node has a child, so that remove_link promotes a replacement
HasChild(link) == link # None /\ (link[1].l # None \/ link[1].r # None)

\* C31: whenever remove_link deletes a node, the target as well as the
\* minimum node it deletes inside the right subtree during promotion, the
\* dimension used to choose the promoted replacement is the depth of that
\* node mod NB_DIM.
C31_PromotionDimension ==
    \A t \in SubLinksAt(root, 0) :
        \A c \in remove_link_rec_calls(t[1], t[2] % NB_DIM) :
            HasChild(c.link) => c.dim = (t[2] + c.below) % NB_DIM

\* the subtree remove_link searches for the replacement of the node of link:
\* the right child, or the left child moved to the right slot
PromotionSubtree(link) ==
    IF link[1].r # None THEN link[1].r ELSE link[1].l

\* the property of C32 for one call remove_link(link, dim) on a node whose
\* discriminant dimension is disc
PromotesMinimum(link, dim, disc) ==
    HasChild(link) =>
        LET r == remove_link(link, dim) IN
        /\ r.res = Some(link[1].e)
        /\ r.link # None
        /\ r.link[1].e \in Elems(PromotionSubtree(link))
        /\ \A x \in Elems(PromotionSubtree(link)) :
               kth(r.link[1].e, disc) <= kth(x, disc)
        /\ Elems(r.link) = Elems(link) \ {link[1].e}
        /\ Size(r.link) = Size(link) - 1

\* C32: when remove_link deletes a node with a right subtree (or a left-only
\* subtree first moved to the right slot), be it the target or the minimum
\* node deleted during promotion, the element swapped into the slot of the
\* node has the minimum coordinate on the discriminant dimension of the node
\* among the elements of that subtree, and the elements afterwards are the
\* previous ones minus exactly the deleted element.
C32_PromotionMinimum ==
    \A t \in SubLinksAt(root, 0) :
        /\ PromotesMinimum(t[1], t[2] % NB_DIM, t[2] % NB_DIM)
        /\ \A c \in remove_link_rec_calls(t[1], t[2] % NB_DIM) :
               PromotesMinimum(c.link, c.dim, (t[2] + c.below) % NB_DIM)

\* the first move of a search that returned path: it stays at the node it
\* was called on, or recurses into the left or the right child
FirstStep(path) == IF path = <<>> THEN "here" ELSE Head(path)

\* for the node of link, the bounds the two children offer on the target axis
\* (coordinate front) and the value of the node, when both children are
\* present and both offer strictly less than the node
BothOffer(link, target_dim) ==
    /\ link[1].l # None /\ link[1].r # None
    /\ link[1].l[1].b[target_dim + 1][1] < kth(link[1].e, target_dim)
    /\ link[1].r[1].b[target_dim + 1][1] < kth(link[1].e, target_dim)

\* the same for the guide bound of the guided front
PqBothOffer(link) ==
    /\ link[1].l # None /\ link[1].r # None
    /\ link[1].l[1].guide_lb < guide(link[1].e)
    /\ link[1].r[1].guide_lb < guide(link[1].e)

\* the direction the claim of C33 names for a tie, as a parameter of the
\* property: the child with the strictly smaller bound, else `tie`
TieBreak(tie) ==
    IF front.impl = "pareto_pq"
    THEN \A t \in SubLinksAt(root, 0), target_dim \in DimSet :
            BothOffer(t[1], target_dim) =>
                LET v_l == t[1][1].l[1].b[target_dim + 1][1]
                    v_r == t[1][1].r[1].b[target_dim + 1][1]
                    step == FirstStep(mut_rec_search_minimum(
                                          t[1], t[2] % NB_DIM, target_dim).path)
                IN step = IF v_l < v_r THEN "l" ELSE IF v_r < v_l THEN "r" ELSE tie
    ELSE \A t \in SubLinksAt(root, 0) :
            PqBothOffer(t[1]) =>
                LET g_l == t[1][1].l[1].guide_lb
                    g_r == t[1][1].r[1].guide_lb
                    step == FirstStep(rec_search_min_guide(t[1], t[2] % NB_DIM).path)
                IN step = IF g_l < g_r THEN "l" ELSE IF g_r < g_l THEN "r" ELSE tie

\* C33 as claimed: at a node whose two children both offer a cached bound
\* strictly smaller than the value of the node on the target axis, the
\* directed minimum search recurses into the child with the smaller bound,
\* and into the left child when the two bounds are equal.
C33_TieLeft == TieBreak("l")

\* C33 amended: the search recurses into the child with the smaller bound,
\* and into the right child when the two bounds are equal.
C33_TieRight == TieBreak("r")

\* a tree of the guided front with a node whose two children offer the same
\* guide bound, smaller than the guide of the node
C33_Witness ==
    /\ front.impl = "priority_queue" /\ op = "insert" /\ ret = TRUE
    /\ \E t \in SubLinksAt(root, 0) :
          PqBothOffer(t[1]) /\ t[1][1].l[1].guide_lb = t[1][1].r[1].guide_lb

RECURSIVE InsertionPath(_, _, _)
\* the way from link to the first absent child under the comparison
\* elt[dim] < node[dim] -> left, else right, dim rotating with the depth
InsertionPath(link, elt, dim) ==
    IF link = None THEN <<>>
    ELSE IF kth(elt, dim) < kth(link[1].e, dim)
         THEN <<"l">> \o InsertionPath(link[1].l, elt, (dim + 1) % NB_DIM)
         ELSE <<"r">> \o InsertionPath(link[1].r, elt, (dim + 1) % NB_DIM)

RECURSIVE LeafAdded(_, _, _, _)
\* new is old with one leaf holding elt added at the end of path: the nodes
\* on the path keep their element and their other child, the subtrees off the
\* path are the same, bounds included; the bounds of the nodes on the path
\* are left open
LeafAdded(old, new, path, elt) ==
    IF path = <<>>
    THEN /\ old = None /\ new # None
         /\ new[1].e = elt /\ new[1].l = None /\ new[1].r = None
    ELSE /\ old # None /\ new # None
         /\ new[1].e = old[1].e
         /\ IF Head(path) = "l"
            THEN /\ new[1].r = old[1].r
                 /\ LeafAdded(old[1].l, new[1].l, Tail(path), elt)
            ELSE /\ new[1].l = old[1].l
                 /\ LeafAdded(old[1].r, new[1].r, Tail(path), elt)

\* C34: when insert(elt) succeeds and elt dominates no present element, elt
\* becomes a new leaf at the first absent child reached by the comparison
\* elt[dim] < node[dim] -> left, else right, with dim = depth mod NB_DIM; no
\* existing node changes its element, parent or children, and only the
\* cached bounds of the nodes on the insertion path change.
C34_LeafPlacement ==
    \A elt \in Elts :
        LET r == insert(root, elt) IN
        (r.res /\ DominatedBy(Elems(root), elt) = {}) =>
            LeafAdded(root, r.link, InsertionPath(root, elt, 0), elt)

\* a successful insert that evicted nothing and put its leaf two levels
\* below the root
C34_Witness ==
    /\ last_insert # None /\ last_insert[1].stage = "inserted"
    /\ DominatedBy(last_insert[1].elems, last_insert[1].elt) = {}
    /\ Len(search(root, last_insert[1].elt).path) >= 2

\* the largest number of insert_without_check calls of an insert-only tree
MaxInserts == 3

\* KDTreeFront::insert_without_check on a tree that is never deleted from;
\* an element may be given again
InsertWithoutCheck(elt) ==
    /\ op' = "insert_without_check"
    /\ Size(root) < MaxInserts
    /\ root' = insert_without_check(root, elt)
    /\ ret' = None
    /\ UNCHANGED <<front, last_insert, log, elements, stored, args>>

NextInsertOnly == \E elt \in Elts : InsertWithoutCheck(elt)

\* the trees built from the empty tree by insert_without_check alone
SpecInsertOnly == Init /\ [][NextInsertOnly]_vars

\* C35: on a tree built from the empty tree by insert_without_check calls
\* alone, search(e) returns a non-empty link iff e equals one of the inserted
\* elements, the link found holds e, and the returned dimension is the depth
\* of the found node mod NB_DIM.
C35_SearchInsertOnly ==
    \A e \in Elts :
        LET s == search(root, e)
            found == LinkAt(root, s.path)
        IN  /\ (found # None) = (e \in Elems(root))
            /\ (s.dim # None) = (found # None)
            /\ found # None => /\ found[1].e = e
                               /\ s.dim[1] = Len(s.path) % NB_DIM

\* three elements were inserted one below the other: the last one is found
\* at depth 2
C35_Witness ==
    /\ op = "insert_without_check" /\ Size(root) = 3
    /\ \E e \in Elems(root) : Len(search(root, e).path) = 2

RECURSIVE BoundsConservative(_)
\* the cached bounds of every node enclose the true bounds of its subtree
BoundsConservative(link) ==
    IF link = None THEN TRUE
    ELSE /\ \A i \in 1..NB_DIM :
               /\ link[1].b[i][1] <= TrueBound(Elems(link), i)[1]
               /\ link[1].b[i][2] >= TrueBound(Elems(link), i)[2]
         /\ BoundsConservative(link[1].l)
         /\ BoundsConservative(link[1].r)

\* C36: in every state reachable by insert, remove and pop_minimum_element,
\* and between the steps of an insert (before and after each remove_link of
\* the sweep, and after the sweep), the cached bounds of every node enclose
\* the true minimum and maximum of each coordinate over its subtree; hence
\* find_dominating finds a dominating element whenever one is present and
\* the sweep removes every dominated element.
C36_BoundsConservative ==
    /\ BoundsConservative(root)
    /\ \A elt \in Elts :
          /\ (find_dominating(root, elt) = None) = ~IsDominated(Elems(root), elt)
          /\ find_dominating(root, elt) = None =>
                LET swept == rec_remove_dominated_by(root, elt, 0) IN
                /\ BoundsConservative(swept)
                /\ Elems(swept) = Elems(root) \ DominatedBy(Elems(root), elt)
                /\ \A c \in rec_remove_dominated_by_calls(root, elt, 0) :
                       /\ BoundsConservative(c[1])
                       /\ BoundsConservative(remove_link(c[1], c[2]).link)

\* a remove has left a bound wider than the true one on some node
C36_Witness ==
    /\ op = "remove" /\ ret = TRUE
    /\ Size(root) >= 2
    /\ ~BoundsExact(root)

\* the public operations that change the tree of either front, each front
\* driven from its empty state
NextMutations ==
    \/ /\ front.impl = "pareto_pq"
       /\ \/ \E elt \in Elts : Insert(elt)
          \/ \E elt \in Elts : Remove(elt)
          \/ \E dim \in DimSet : PopMinimumElement(dim)
    \/ /\ front.impl = "priority_queue"
       /\ \/ \E elt \in PqElts : PqInsert(elt)
          \/ PqPopMinimum

SpecMutations == InitFronts /\ [][NextMutations]_vars

\* C37: in every reachable state of either front, the element that the peek
\* returns is the element that a pop taken in that state removes and returns:
\* peek_minimum_element(dim) and pop_minimum_element(dim) for every dim < k
\* on the pareto_pq front, peek_minimum and pop_minimum on the guided front;
\* both are None on the empty tree and the popped element leaves the tree.
C37_PeekPopAgree ==
    IF front.impl = "pareto_pq"
    THEN \A dim \in DimSet :
            LET p == pop_minimum_element(root, dim) IN
            /\ peek_minimum_element(root, dim) = p.res
            /\ (p.res = None) = (root = None)
            /\ p.res # None => Elems(p.link) = Elems(root) \ {p.res[1]}
    ELSE LET p == pop_minimum(root) IN
         /\ peek_minimum(root) = p.res
         /\ (p.res = None) = (root = None)
         /\ p.res # None => Elems(p.link) = Elems(root) \ {p.res[1]}

\* a pareto_pq tree whose minimum on some dimension lies two levels down
C37_Witness ==
    /\ front.impl = "pareto_pq"
    /\ \E dim \in DimSet :
          /\ Len(rec_search_minimum(root, 0, dim).path) >= 2
          /\ peek_minimum_element(root, dim) # None
          /\ peek_minimum_element(root, dim) = pop_minimum_element(root, dim).res

\* C38: no fatal branch is reachable. On the pareto_pq front, search returns
\* a dimension with every non-empty link it returns, so that remove_and_return
\* never takes its panic arm; on either front, every remove_link that a
\* promotion makes on the minimum link returns an element, so that the
\* unwrap of its result never meets None.
C38_NoFatalBranch ==
    IF front.impl = "pareto_pq"
    THEN /\ \A elt \in Elts :
               LET s == search(root, elt)
               IN LinkAt(root, s.path) # None => s.dim # None
         /\ \A c \in RemoveLinkCalls : \A m \in remove_link_calls(c[1], c[2]) :
               remove_link(m, c[2]).res # None
    ELSE \A c \in PqRemoveLinkCalls : \A m \in pq_remove_link_calls(c[1], c[2]) :
               pq_remove_link(m, c[2]).res # None

\* a remove has found its element, and the tree holds an element that search
\* finds below the root and a node whose removal unwraps a promoted element
C38_Witness ==
    /\ front.impl = "pareto_pq" /\ op = "remove" /\ ret = TRUE
    /\ \E elt \in Elems(root) :
          LET s == search(root, elt)
          IN Len(s.path) >= 1 /\ s.dim # None /\ LinkAt(root, s.path) # None
    /\ \E t \in SubLinks(root) : \E m \in remove_link_calls(t, 0) :
          remove_link(m, 0).res # None

====
